---- MODULE Spec2Model ----
(***************************************************************************)
(* Real-time audio pipeline of game-translate: the remote streaming        *)
(* client (providers/ws_stt_provider.py), the local inference backend and  *)
(* its voice-activity segmenter (providers/local_stt_provider.py) and the  *)
(* frame chunker (audio/chunker.py).                                       *)
(*                                                                         *)
(* Three specifications share the variables: SpecWS (remote client),       *)
(* SpecLocal / SpecLocalFair (local backend) and SpecChunk (chunker).      *)
(* Each one holds the other components at their initial value.             *)
(***************************************************************************)
EXTENDS Integers, Sequences, FiniteSets, TLC

\* ------------------------------------------------------------------ bounds
\* Blocks the capture thread hands to WebSocketSTTClient.send_pcm16.
MaxBlocks == 3
\* Text messages the server sends on one connection.
MaxMsgs == 2
\* Analysis frames fed to LocalStreamingSTT.send_pcm16.
MaxFrames == 5
\* Denominator of the noise smoothing factors explored (alpha = a / AlphaDen).
AlphaDen == 4
\* Frames given to AudioChunker.add_frame.
MaxChunkInput == 6
\* Largest chunk_frames / overlap_frames configured.
MaxChunkFrames == 3
\* Turns of add_frame's while loop followed within one call.
MaxTurns == 3
\* stop() is called at most this many times
MaxStops == 2
\* start() is called at most this many times on one instance
MaxStarts == 2
\* send_pcm16 calls on the local backend's frame slicer
MaxSliceCalls == 3
\* samples of one output period (`frames` of out_callback)
OutFrames == 2
\* synthesized-audio blocks received
MaxTts == 3
\* output periods played
MaxPeriods == 4
\* capture callbacks delivered beside run()
MaxCallbacks == 2
\* pieces of at most 40 ms one chunk is cut into
MaxPieces == 2

\* ---------------------------------------------------------------- helpers
Range(s) == {s[i] : i \in 1..Len(s)}

RECURSIVE SelectBlocks(_)
\* The audio block ids of a sequence of socket writes, in write order.
SelectBlocks(w) ==
    IF w = <<>> THEN <<>>
    ELSE IF Head(w).t \in {"bin", "json"}
         THEN <<Head(w).b>> \o SelectBlocks(Tail(w))
         ELSE SelectBlocks(Tail(w))

StrictlyIncreasing(s) == \A i \in 1..Len(s) : \A j \in 1..Len(s) : i < j => s[i] < s[j]

\* =========================================================================
\* Remote streaming client: WebSocketSTTClient
\* =========================================================================
VARIABLES
    payloadProvider,  \* start_payload.get("provider"); "none" when the key is absent
    provider,         \* self.provider
    ws,               \* self.ws: "None" or "App" (the WebSocketApp)
    conn,             \* the socket: "init", "connected" (on_open due), "open", "closed"
    ready,            \* self._ready
    pending_chunks,   \* self._pending_chunks: block ids in append order
    wire,             \* every message written to the socket, in write order
    transcripts,      \* on_transcript calls, in order: "partial" or "final"
    tts_audio,        \* on_tts calls, in order: [n: the message's number]
    on_event,         \* self._on_event is set: extra carried a callable "on_event"
    on_tts,           \* self._on_tts is set
    starts,           \* calls of start() so far
    phase,            \* session lifecycle: "constructed", "started", "closed"
    cap_pc, cap_blk,  \* capture thread inside send_pcm16, and its argument
    rcv_pc, rcv_idx,  \* receiver thread inside on_message, and the flush loop's index
    ctl_pc,           \* control thread inside close()
    calls,            \* block ids passed to send_pcm16 while self.ws was set, in call order
    returned,         \* block ids whose send_pcm16 call has returned
    staSeen,          \* the client has handled a code-0 message with status STA
    nBlocks, nMsgs    \* blocks handed over and messages received so far

wsVars == <<payloadProvider, provider, ws, conn, ready, pending_chunks, wire,
            transcripts, phase, cap_pc, cap_blk, rcv_pc, rcv_idx, ctl_pc, calls,
            returned, staSeen, nBlocks, nMsgs, tts_audio, on_event, on_tts, starts>>

\* What only start() and the inbound handlers change.
startVars == <<tts_audio, on_event, on_tts, starts>>

\* Local inference backend: LocalStreamingSTT
VARIABLES
    silence_threshold,       \* self._silence_threshold
    max_frames_per_segment,  \* self._max_frames_per_segment
    noise_update_alpha,      \* self._noise_update_alpha, as a numerator over AlphaDen
    noise_level,             \* self._noise_level, times NoiseScale
    speech_active,           \* self._speech_active
    silence_count,           \* self._silence_count
    frames_in_segment,       \* self._frames_in_segment
    vad_buffer,              \* self._buffer: the open segment's frames (frame numbers)
    pending,                 \* self._pending: queued segments
    processing,              \* self._processing
    workers,                 \* every _proc_loop thread started so far
    hist,                    \* per frame fed: level, Active before it, threshold, floor after
    flushed,                 \* segments handed to _schedule_transcribe, in flush order
    transcribed,             \* segment numbers passed to model.transcribe, in order
    callbacks,               \* segment numbers of on_transcript(text, True) calls, in order
    closed,                  \* close() has been called
    close_seg                \* number of the segment close() queued, 0 if none

localVars == <<silence_threshold, max_frames_per_segment, noise_update_alpha,
               noise_level, speech_active, silence_count, frames_in_segment,
               vad_buffer, pending, processing, workers, hist, flushed, transcribed,
               callbacks, closed, close_seg>>

\* Frame chunker: AudioChunker
VARIABLES
    chunk_frames,     \* self.chunk_frames
    overlap_frames,   \* self.overlap_frames
    buffer,           \* self.buffer: buffered frames (frame numbers)
    chunks,           \* add_frame's local list `chunks`
    emitted,          \* every chunk add_frame has returned, in order
    chk_pc,           \* "idle", or "loop" inside add_frame's while loop
    nChunkInput       \* frames given to add_frame so far

chunkVars == <<chunk_frames, overlap_frames, buffer, chunks, emitted, chk_pc,
               nChunkInput>>

\* Capture callback: one chunk on its way from the chunker to send_pcm16
VARIABLES
    path,             \* which capture path feeds: "primary", "fallback", "mic"
    capture_rate,     \* capture_rate_holder["sr"] (SAMPLE_RATE on the mic path)
    api_rate,         \* api_rate_holder["sr"]: the rate the session was started with
    frame_ms,         \* FRAME_MS (APP_FRAME_MS)
    feed_pc,          \* "idle", "resample", "split", "send"
    chunk_len,        \* len(chunk), in samples
    split_start,      \* the local `start`
    handed            \* the slices of the chunk passed to send_pcm16: [s, e)

feedVars == <<path, capture_rate, api_rate, frame_ms, feed_pc, chunk_len,
              split_start, handed>>

\* Capture workers: SystemStreamWorker.run / MicStreamWorker.run and stop()
VARIABLES
    worker,           \* which worker runs: "system" or "mic"
    stt_mode,         \* cfg.stt_mode: "local" or "api"
    url_set,          \* cfg.stt_api.websocket_url is non-empty
    run_pc,           \* where run() is
    stop_event,       \* self._stop_event
    stt_session,      \* self.stt_session: 0 (None) or the number of the session
    nSessions,        \* sessions constructed so far
    chosen_channels,  \* the local chosen_channels (0: None)
    in_stream,        \* the sd.InputStream (and OutputStream) context: "closed"/"open"
    loopback,         \* the DefaultLoopbackReader context: "closed"/"open"
    olog,             \* what run() has done so far, in order: [e, n]
    stop_calls        \* calls of stop() so far

orchVars == <<worker, stt_mode, url_set, run_pc, stop_event, stt_session, nSessions,
              chosen_channels, in_stream, loopback, olog, stop_calls>>

\* Local backend: send_pcm16 cutting its block into analysis frames
VARIABLES
    frame_size,       \* self.frame_size, in samples
    fed_blocks,       \* len(pcm16) of every send_pcm16 call so far, in order
    frames_evaluated  \* analysis frames the loop of send_pcm16 has evaluated so far

sliceVars == <<frame_size, fed_blocks, frames_evaluated>>

\* Microphone worker playback: on_tts and out_callback
VARIABLES
    playback_queue,   \* playback_queue: the queued blocks, each a sequence of samples
    out_pc,           \* where out_callback is: "idle", "filled", "pop", "split", "write", "stopped"
    out_buf,          \* the local buf of out_callback
    out_data,         \* the local data of out_callback
    periods,          \* every outdata written so far, in order
    tts_samples,      \* samples on_tts has received so far
    nTts              \* on_tts calls so far

playVars == <<playback_queue, out_pc, out_buf, out_data, periods, tts_samples, nTts>>

\* A capture callback running beside run()
VARIABLES
    cb_pc,            \* "idle", "check", "read", "call", "stopped"
    cb_ref,           \* the session the callback has read from self.stt_session
    cb_left,          \* pieces of the current chunk still to send
    nCallbacks        \* callbacks delivered so far

cbVars == <<cb_pc, cb_ref, cb_left, nCallbacks>>

vars == <<wsVars, localVars, chunkVars, feedVars, orchVars, sliceVars, playVars, cbVars>>

\* Every start() call of the capture workers passes a callable "on_event".
WorkerSinks == {TRUE}

PayloadProviders == {"none", "baidu", "generic-ws"}
ExtraProviders == {"none", "baidu", "generic-ws"}
\* Kinds of inbound text message: code 0 / status STA, non-zero code, code 0 /
\* status TRN with result type MID or FIN and a text, text that is not JSON.
MsgKinds == {"STA", "ERR", "MID", "FIN", "JUNK"}
\* Further kinds: status TRN / type MID with an empty text; a JSON object with
\* an unknown status or type; type "transcript" with final false / true; type
\* "tts" with audio that decodes / that does not.
TextKinds == MsgKinds \cup {"MID_EMPTY", "OTHER", "TR_P", "TR_F", "TTS", "TTS_BAD"}
\* Kinds of inbound binary frame: 0x01 and audio that decodes to samples, 0x01
\* and bytes that do not decode, fewer than 2 bytes, another first byte.
BinKinds == {"BIN_TTS", "BIN_BAD", "BIN_SHORT", "BIN_NOMARK"}

\* __init__: self.provider = str(start_payload.get("provider", "generic-ws"))
InitProvider(pp) == IF pp = "none" THEN "generic-ws" ELSE pp

\* start: if extra and "provider" in extra: self.provider = str(extra["provider"]) or self.provider
StartProvider(cur, ep) == IF ep = "none" THEN cur ELSE ep

\* on_open / on_message / close: prov = start_payload.get("provider") or self.provider
Prov == IF payloadProvider # "none" THEN payloadProvider ELSE provider

\* ws.send on a WebSocketApp: the frame is written when the socket is connected;
\* otherwise it raises, and every caller swallows the exception.
SockWrite(handle, c, w, m) ==
    IF handle = "App" /\ c \in {"connected", "open"} THEN Append(w, m) ELSE w

Ctl(t) == [t |-> t, b |-> 0]
Bin(b) == [t |-> "bin", b |-> b]
Json(b) == [t |-> "json", b |-> b]

WSInit ==
    /\ payloadProvider \in PayloadProviders
    /\ provider = InitProvider(payloadProvider)
    /\ ws = "None"
    /\ conn = "init"
    /\ ready = FALSE
    /\ pending_chunks = <<>>
    /\ wire = <<>>
    /\ transcripts = <<>>
    /\ tts_audio = <<>>
    /\ on_event = FALSE
    /\ on_tts = FALSE
    /\ starts = 0
    /\ phase = "constructed"
    /\ cap_pc = "idle" /\ cap_blk = 0
    /\ rcv_pc = "idle" /\ rcv_idx = 0
    /\ ctl_pc = "idle"
    /\ calls = <<>>
    /\ returned = <<>>
    /\ staSeen = FALSE
    /\ nBlocks = 0 /\ nMsgs = 0

\* ---- control thread: start()
\* The orchestrator constructs a fresh session for every start (stream_workers
\* _start_system_session), so start() runs once per instance. `sink`: extra
\* carries a callable "on_event"; `tts`: an on_tts callback is given.
WsStart(ep, sink, tts) ==
    /\ UNCHANGED <<localVars, chunkVars, feedVars, orchVars,
                 sliceVars, playVars, cbVars>>
    /\ phase = "constructed" /\ ctl_pc = "idle"
    /\ provider' = StartProvider(provider, ep)
    /\ on_tts' = tts
    /\ on_event' = (on_event \/ sink)
    /\ ws' = "App"
    /\ phase' = "started"
    /\ starts' = starts + 1
    /\ UNCHANGED <<payloadProvider, conn, ready, pending_chunks, wire, transcripts,
                   cap_pc, cap_blk, rcv_pc, rcv_idx, ctl_pc, calls, returned,
                   staSeen, nBlocks, nMsgs, tts_audio>>

\* start() called on an instance whose close() has returned. start() tests
\* nothing: it sets the callbacks again, builds a new WebSocketApp (a new
\* socket) and starts a new receiver thread; _ready and _pending_chunks are
\* as close() left them.
WsStartAgain(ep, sink, tts) ==
    /\ UNCHANGED <<localVars, chunkVars, feedVars, orchVars,
                 sliceVars, playVars, cbVars>>
    /\ phase = "closed" /\ ctl_pc = "idle" /\ rcv_pc = "idle"
    /\ starts < MaxStarts
    /\ provider' = StartProvider(provider, ep)
    /\ on_tts' = tts
    /\ on_event' = (on_event \/ sink)
    /\ ws' = "App"
    /\ conn' = "init"
    /\ phase' = "started"
    /\ starts' = starts + 1
    /\ UNCHANGED <<payloadProvider, ready, pending_chunks, wire, transcripts,
                   cap_pc, cap_blk, rcv_pc, rcv_idx, ctl_pc, calls, returned,
                   staSeen, nBlocks, nMsgs, tts_audio>>

\* ---- receiver thread: on_open
\* The messages on_open writes. The handshake START is built from named
\* fields. The generic start is `payload.update(extra)` then
\* `ws.send(json.dumps(payload))`: with a callable "on_event" in extra
\* json.dumps raises TypeError and on_open ends there, nothing written.
OpenWrites(prov, sink) ==
    IF prov = "baidu" THEN <<Ctl("START")>>
    ELSE IF sink THEN <<>> ELSE <<Ctl("start")>>

\* What on_open leaves in self._ready: False after the handshake START, True
\* after the generic start was sent, untouched when json.dumps raised.
ReadyAfterOpen(prov, sink, cur) ==
    IF prov = "baidu" THEN FALSE
    ELSE IF sink THEN cur ELSE TRUE

\* The receiver thread connects the socket before it dispatches on_open; from
\* then on a ws.send from any thread is written. A session being closed is not
\* connected any more.
WsConnect ==
    /\ UNCHANGED <<localVars, chunkVars, feedVars, orchVars,
                 sliceVars, playVars, cbVars>>
    /\ ws = "App" /\ conn = "init" /\ phase = "started"
    /\ conn' = "connected"
    /\ UNCHANGED <<startVars, payloadProvider, provider, ws, ready, pending_chunks, wire,
                   transcripts, phase, cap_pc, cap_blk, rcv_pc, rcv_idx, ctl_pc,
                   calls, returned, staSeen, nBlocks, nMsgs>>

\* on_open as it runs for a session started with / without an event sink.
OnOpen(sink) ==
    /\ UNCHANGED <<localVars, chunkVars, feedVars, orchVars,
                 sliceVars, playVars, cbVars>>
    /\ conn = "connected" /\ rcv_pc = "idle"
    /\ conn' = "open"
    /\ wire' = wire \o OpenWrites(Prov, sink)
    /\ ready' = ReadyAfterOpen(Prov, sink, ready)
    /\ UNCHANGED <<startVars, payloadProvider, provider, ws, pending_chunks, transcripts, phase,
                   cap_pc, cap_blk, rcv_pc, rcv_idx, ctl_pc, calls, returned,
                   staSeen, nBlocks, nMsgs>>

WsOnOpen ==
    /\ ws = "App"
    /\ OnOpen(on_event)

\* ---- receiver thread: on_message
\* The handshake branch up to and including `self._ready = True`.
IsReadyAck(kind) == kind = "STA"

\* A demultiplexer that decodes the inline audio of every tts message.
TextCallbacksAnyAudio(prov, kind, tts) ==
    IF prov = "baidu"
    THEN CASE kind = "MID" -> <<"partial">>
           [] kind = "FIN" -> <<"final">>
           [] OTHER -> <<>>
    ELSE CASE kind = "TR_P" -> <<"partial">>
           [] kind = "TR_F" -> <<"final">>
           [] kind \in {"TTS", "TTS_BAD"} /\ tts -> <<"audio">>
           [] OTHER -> <<>>

\* The callbacks on_message makes for one text message (on_transcript is always
\* registered: start() requires it). Handshake branch: code 0 and status TRN
\* with type MID / FIN and a non-empty text. Generic branch: type "transcript"
\* (final false / true), or type "tts" with audio that decodes and an on_tts.
TextCallbacks(prov, kind, tts) ==
    IF prov = "baidu"
    THEN CASE kind = "MID" -> <<"partial">>
           [] kind = "FIN" -> <<"final">>
           [] OTHER -> <<>>
    ELSE CASE kind = "TR_P" -> <<"partial">>
           [] kind = "TR_F" -> <<"final">>
           [] kind = "TTS" /\ tts -> <<"audio">>
           [] OTHER -> <<>>

\* An on_data that takes every frame of 2 bytes or more for audio.
BinCallbacksNoMarker(kind, tts) ==
    IF tts /\ kind \in {"BIN_TTS", "BIN_NOMARK"} THEN <<"audio">> ELSE <<>>

\* The callbacks on_data makes for one binary frame: on_tts for a frame of at
\* least 2 bytes whose first byte is 0x01 and whose rest decodes to samples.
BinCallbacks(kind, tts) == IF tts /\ kind = "BIN_TTS" THEN <<"audio">> ELSE <<>>

\* The callback logs after message number n made the callbacks cbs.
Transcribed(log, cbs) == log \o SelectSeq(cbs, LAMBDA c : c \in {"partial", "final"})
Played(log, cbs, n) == IF cbs = <<"audio">> THEN Append(log, [n |-> n]) ELSE log

WsOnMessage(kind) ==
    /\ UNCHANGED <<localVars, chunkVars, feedVars, orchVars,
                 sliceVars, playVars, cbVars>>
    /\ conn = "open" /\ rcv_pc = "idle" /\ nMsgs < MaxMsgs
    /\ nMsgs' = nMsgs + 1
    /\ IF Prov = "baidu"
       THEN /\ ready' = (IF IsReadyAck(kind) THEN TRUE ELSE ready)
            /\ staSeen' = (staSeen \/ kind = "STA")
            /\ rcv_pc' = (IF IsReadyAck(kind) THEN "flushchk" ELSE "idle")
       ELSE UNCHANGED <<ready, staSeen, rcv_pc>>
    /\ transcripts' = Transcribed(transcripts, TextCallbacks(Prov, kind, on_tts))
    /\ tts_audio' = Played(tts_audio, TextCallbacks(Prov, kind, on_tts), nMsgs + 1)
    /\ UNCHANGED <<payloadProvider, provider, ws, conn, pending_chunks, wire, phase,
                   cap_pc, cap_blk, rcv_idx, ctl_pc, calls, returned, nBlocks,
                   on_event, on_tts, starts>>

\* ---- receiver thread: on_data, for a binary frame. The frame's bytes are
\* compressed audio or noise, not JSON text: the on_message call the library
\* makes for the same frame ends at json.loads.
WsOnData(kind) ==
    /\ UNCHANGED <<localVars, chunkVars, feedVars, orchVars,
                 sliceVars, playVars, cbVars>>
    /\ conn = "open" /\ rcv_pc = "idle" /\ nMsgs < MaxMsgs
    /\ nMsgs' = nMsgs + 1
    /\ tts_audio' = Played(tts_audio, BinCallbacks(kind, on_tts), nMsgs + 1)
    /\ UNCHANGED <<payloadProvider, provider, ws, conn, ready, pending_chunks, wire,
                   transcripts, phase, cap_pc, cap_blk, rcv_pc, rcv_idx, ctl_pc,
                   calls, returned, staSeen, nBlocks, on_event, on_tts, starts>>

\* `if self._pending_chunks:`
WsFlushCheck ==
    /\ UNCHANGED <<localVars, chunkVars, feedVars, orchVars,
                 sliceVars, playVars, cbVars>>
    /\ rcv_pc = "flushchk"
    /\ rcv_pc' = (IF pending_chunks # <<>> THEN "flushloop" ELSE "idle")
    /\ rcv_idx' = 0
    /\ UNCHANGED <<startVars, payloadProvider, provider, ws, conn, ready, pending_chunks, wire,
                   transcripts, phase, cap_pc, cap_blk, ctl_pc, calls, returned,
                   staSeen, nBlocks, nMsgs>>

\* One turn of `for pending in self._pending_chunks: self.ws.send(...)`: a Python
\* list iterator re-reads the list's length at every turn.
WsFlushLoop ==
    /\ UNCHANGED <<localVars, chunkVars, feedVars, orchVars,
                 sliceVars, playVars, cbVars>>
    /\ rcv_pc = "flushloop"
    /\ IF rcv_idx < Len(pending_chunks)
       THEN /\ wire' = SockWrite(ws, conn, wire, Bin(pending_chunks[rcv_idx + 1]))
            /\ rcv_idx' = rcv_idx + 1
            /\ rcv_pc' = "flushloop"
       ELSE /\ rcv_pc' = "flushclear"
            /\ UNCHANGED <<wire, rcv_idx>>
    /\ UNCHANGED <<startVars, payloadProvider, provider, ws, conn, ready, pending_chunks,
                   transcripts, phase, cap_pc, cap_blk, ctl_pc, calls, returned,
                   staSeen, nBlocks, nMsgs>>

\* `self._pending_chunks.clear()` after the loop
WsFlushClear ==
    /\ UNCHANGED <<localVars, chunkVars, feedVars, orchVars,
                 sliceVars, playVars, cbVars>>
    /\ rcv_pc = "flushclear"
    /\ pending_chunks' = <<>>
    /\ rcv_pc' = "idle"
    /\ UNCHANGED <<startVars, payloadProvider, provider, ws, conn, ready, wire, transcripts,
                   phase, cap_pc, cap_blk, rcv_idx, ctl_pc, calls, returned, staSeen,
                   nBlocks, nMsgs>>

\* ---- capture thread: send_pcm16
\* `if self.ws is None: return`
WsSendCall ==
    /\ UNCHANGED <<localVars, chunkVars, feedVars, orchVars,
                 sliceVars, playVars, cbVars>>
    /\ cap_pc = "idle" /\ nBlocks < MaxBlocks
    /\ nBlocks' = nBlocks + 1
    /\ IF ws = "None"
       THEN UNCHANGED <<cap_pc, cap_blk, calls>>
       ELSE /\ cap_pc' = "branch"
            /\ cap_blk' = nBlocks + 1
            /\ calls' = Append(calls, nBlocks + 1)
    /\ UNCHANGED <<startVars, payloadProvider, provider, ws, conn, ready, pending_chunks, wire,
                   transcripts, phase, rcv_pc, rcv_idx, ctl_pc, returned, staSeen, nMsgs>>

\* send_pcm16 without the readiness gate.
SendPathNoGate(p, r) == IF p = "baidu" THEN "send" ELSE "sendjson"

\* The path send_pcm16 takes: `if self.provider == "baidu": if not self._ready:`
SendPath(p, r) == IF p = "baidu" THEN (IF r THEN "send" ELSE "append") ELSE "sendjson"

WsSendBranch ==
    /\ UNCHANGED <<localVars, chunkVars, feedVars, orchVars,
                 sliceVars, playVars, cbVars>>
    /\ cap_pc = "branch"
    /\ cap_pc' = SendPath(provider, ready)
    /\ UNCHANGED <<startVars, payloadProvider, provider, ws, conn, ready, pending_chunks, wire,
                   transcripts, phase, cap_blk, rcv_pc, rcv_idx, ctl_pc, calls,
                   returned, staSeen, nBlocks, nMsgs>>

\* `self._pending_chunks.append(pcm16.copy())`
WsSendAppend ==
    /\ UNCHANGED <<localVars, chunkVars, feedVars, orchVars,
                 sliceVars, playVars, cbVars>>
    /\ cap_pc = "append"
    /\ pending_chunks' = Append(pending_chunks, cap_blk)
    /\ cap_pc' = "idle"
    /\ returned' = Append(returned, cap_blk)
    /\ UNCHANGED <<startVars, payloadProvider, provider, ws, conn, ready, wire, transcripts,
                   phase, cap_blk, rcv_pc, rcv_idx, ctl_pc, calls, staSeen, nBlocks,
                   nMsgs>>

\* `self.ws.send(b, opcode=ABNF.OPCODE_BINARY)` / `self.ws.send(json.dumps(payload))`
WsSendWrite ==
    /\ UNCHANGED <<localVars, chunkVars, feedVars, orchVars,
                 sliceVars, playVars, cbVars>>
    /\ cap_pc \in {"send", "sendjson"}
    /\ wire' = SockWrite(ws, conn, wire,
                         IF cap_pc = "send" THEN Bin(cap_blk) ELSE Json(cap_blk))
    /\ cap_pc' = "idle"
    /\ returned' = Append(returned, cap_blk)
    /\ UNCHANGED <<startVars, payloadProvider, provider, ws, conn, ready, pending_chunks,
                   transcripts, phase, cap_blk, rcv_pc, rcv_idx, ctl_pc, calls,
                   staSeen, nBlocks, nMsgs>>

\* ---- control thread: close()
\* `if self.ws: self.ws.send(json.dumps({"type": "FINISH" | "stop"}))`
WsCloseBegin ==
    /\ UNCHANGED <<localVars, chunkVars, feedVars, orchVars,
                 sliceVars, playVars, cbVars>>
    /\ phase \in {"constructed", "started"} /\ ctl_pc = "idle"
    /\ phase' = "closed"
    /\ IF ws = "App"
       THEN /\ wire' = SockWrite(ws, conn, wire,
                                 IF Prov = "baidu" THEN Ctl("FINISH") ELSE Ctl("stop"))
            /\ ctl_pc' = "sockclose"
       ELSE /\ ctl_pc' = "fin_ws"
            /\ UNCHANGED wire
    /\ UNCHANGED <<startVars, payloadProvider, provider, ws, conn, ready, pending_chunks,
                   transcripts, cap_pc, cap_blk, rcv_pc, rcv_idx, calls, returned,
                   staSeen, nBlocks, nMsgs>>

\* `self.ws.close()`
WsCloseSocket ==
    /\ UNCHANGED <<localVars, chunkVars, feedVars, orchVars,
                 sliceVars, playVars, cbVars>>
    /\ ctl_pc = "sockclose"
    /\ conn' = "closed"
    /\ ctl_pc' = "fin_ws"
    /\ UNCHANGED <<startVars, payloadProvider, provider, ws, ready, pending_chunks, wire,
                   transcripts, phase, cap_pc, cap_blk, rcv_pc, rcv_idx, calls,
                   returned, staSeen, nBlocks, nMsgs>>

\* finally: `self.ws = None; self.receiver_thread = None`
WsCloseDropHandle ==
    /\ UNCHANGED <<localVars, chunkVars, feedVars, orchVars,
                 sliceVars, playVars, cbVars>>
    /\ ctl_pc = "fin_ws"
    /\ ws' = "None"
    /\ ctl_pc' = "fin_ready"
    /\ UNCHANGED <<startVars, payloadProvider, provider, conn, ready, pending_chunks, wire,
                   transcripts, phase, cap_pc, cap_blk, rcv_pc, rcv_idx, calls,
                   returned, staSeen, nBlocks, nMsgs>>

\* finally: `self._ready = False`
WsCloseUnready ==
    /\ UNCHANGED <<localVars, chunkVars, feedVars, orchVars,
                 sliceVars, playVars, cbVars>>
    /\ ctl_pc = "fin_ready"
    /\ ready' = FALSE
    /\ ctl_pc' = "fin_clear"
    /\ UNCHANGED <<startVars, payloadProvider, provider, ws, conn, pending_chunks, wire,
                   transcripts, phase, cap_pc, cap_blk, rcv_pc, rcv_idx, calls,
                   returned, staSeen, nBlocks, nMsgs>>

\* finally: `self._pending_chunks.clear()`
WsCloseClear ==
    /\ UNCHANGED <<localVars, chunkVars, feedVars, orchVars,
                 sliceVars, playVars, cbVars>>
    /\ ctl_pc = "fin_clear"
    /\ pending_chunks' = <<>>
    /\ ctl_pc' = "idle"
    /\ UNCHANGED <<startVars, payloadProvider, provider, ws, conn, ready, wire, transcripts,
                   phase, cap_pc, cap_blk, rcv_pc, rcv_idx, calls, returned, staSeen,
                   nBlocks, nMsgs>>

WSNext ==
    \/ \E ep \in ExtraProviders : \E sink \in WorkerSinks : WsStart(ep, sink, FALSE)
    \/ WsConnect
    \/ WsOnOpen
    \/ \E kind \in MsgKinds : WsOnMessage(kind)
    \/ WsFlushCheck
    \/ WsFlushLoop
    \/ WsFlushClear
    \/ WsSendCall
    \/ WsSendBranch
    \/ WsSendAppend
    \/ WsSendWrite
    \/ WsCloseBegin
    \/ WsCloseSocket
    \/ WsCloseDropHandle
    \/ WsCloseUnready
    \/ WsCloseClear

\* An instance a consumer feeds, closes and starts again.
ReuseNext ==
    \/ \E ep \in ExtraProviders : \E sink \in WorkerSinks : WsStart(ep, sink, FALSE)
    \/ WsConnect
    \/ WsOnOpen
    \/ WsSendCall
    \/ WsSendBranch
    \/ WsSendAppend
    \/ WsSendWrite
    \/ WsCloseBegin
    \/ WsCloseSocket
    \/ WsCloseDropHandle
    \/ WsCloseUnready
    \/ WsCloseClear
    \/ \E ep \in ExtraProviders : \E sink \in WorkerSinks : WsStartAgain(ep, sink, FALSE)

\* A session started with any options, receiving every kind of message and
\* frame while the capture thread feeds it.
InboundNext ==
    \/ \E ep \in ExtraProviders : \E sink \in BOOLEAN : \E tts \in BOOLEAN :
           WsStart(ep, sink, tts)
    \/ WsConnect
    \/ WsOnOpen
    \/ \E kind \in TextKinds : WsOnMessage(kind)
    \/ \E kind \in BinKinds : WsOnData(kind)
    \/ WsFlushCheck
    \/ WsFlushLoop
    \/ WsFlushClear
    \/ WsSendCall
    \/ WsSendBranch
    \/ WsSendAppend
    \/ WsSendWrite

\* =========================================================================
\* Local inference backend: LocalStreamingSTT (segmenter and worker queue)
\* =========================================================================
\* __init__ defaults: APP_LOCAL_VAD_ENERGY, APP_LOCAL_VAD_NOISE_X and the
\* initial self._noise_level.
energy_threshold == 500
noise_multiplier == 2
InitialNoise == 100

RECURSIVE Pow(_, _)
Pow(b, e) == IF e = 0 THEN 1 ELSE b * Pow(b, e - 1)

\* The noise floor is a float in the code. With alpha = a / AlphaDen and
\* integer levels, every value it takes within MaxFrames updates is a multiple
\* of 1 / NoiseScale, so noise_level holds it times NoiseScale, exactly.
NoiseScale == Pow(AlphaDen, MaxFrames)

\* Mean absolute amplitude of a frame: silence, exactly the static threshold, loud.
Levels == {0, 500, 2000}
\* Smoothing factors (numerators over AlphaDen), silence-frame counts and
\* duration caps (in frames) a session is configured with.
Alphas == {0, 1}
SilenceThresholds == {1, 2}
MaxSegmentFrames == {2, 3}
\* What model.transcribe yields for a segment: text, no text, an exception.
Outcomes == {"text", "empty", "error"}

Max(a, b) == IF a >= b THEN a ELSE b

\* The noise floor after a frame, ignoring whether speech is active.
NoiseAlways(active, noise, a, level) ==
    ((AlphaDen - a) * noise + a * level * NoiseScale) \div AlphaDen

\* `if not self._speech_active: self._noise_level = (1 - alpha) * noise + alpha * level`
NextNoise(active, noise, a, level) ==
    IF ~active THEN ((AlphaDen - a) * noise + a * level * NoiseScale) \div AlphaDen
    ELSE noise

\* `dyn_thresh = max(self._energy_threshold, self._noise_level * self._noise_multiplier)`
DynThresh(noise) == Max(energy_threshold * NoiseScale, noise * noise_multiplier)

\* A frame at the threshold taken for speech.
IsSpeechAtOrAbove(level, thr) == level * NoiseScale >= thr

\* `is_speech = bool(level > dyn_thresh)`
IsSpeech(level, thr) == level * NoiseScale > thr

\* The duration cap reached one frame late.
CapReachedLate(n, cap) == n > cap

\* `if self._frames_in_segment >= self._max_frames_per_segment:`
CapReached(n, cap) == n >= cap

\* The silence threshold reached one frame late.
SilenceReachedLate(n, thr) == n > thr

\* `if self._silence_count >= self._silence_threshold:`
SilenceReached(n, thr) == n >= thr

NewWorker == [pc |-> "top", seg |-> 0, text |-> ""]

\* A worker started for every queued segment.
ScheduleAlwaysSpawn(pend, proc, wk, seg) ==
    [pending |-> Append(pend, seg), processing |-> TRUE, workers |-> Append(wk, NewWorker)]

\* _schedule_transcribe, the whole `with self._proc_lock:` block
Schedule(pend, proc, wk, seg) ==
    [pending |-> Append(pend, seg),
     processing |-> TRUE,
     workers |-> IF ~proc THEN Append(wk, NewWorker) ELSE wk]

\* _flush_segment on the open-segment buffer `buf`. The optional preview that
\* follows the enqueue reads two names the method never binds, inside a try
\* that swallows the error: it delivers nothing.
FlushSegment(buf, fis, pend, proc, wk, fl) ==
    IF buf = <<>>
    THEN [buffer |-> buf, frames_in_segment |-> fis, pending |-> pend,
          processing |-> proc, workers |-> wk, flushed |-> fl]
    ELSE LET s == Schedule(pend, proc, wk, [id |-> Len(fl) + 1, frames |-> buf])
         IN [buffer |-> <<>>, frames_in_segment |-> 0, pending |-> s.pending,
             processing |-> s.processing, workers |-> s.workers,
             flushed |-> Append(fl, buf)]

\* The state of a constructed and started session; the tunables come from the
\* environment or start's options.
LocalInit ==
    /\ silence_threshold \in SilenceThresholds
    /\ max_frames_per_segment \in MaxSegmentFrames
    /\ noise_update_alpha \in Alphas
    /\ noise_level = InitialNoise * NoiseScale
    /\ speech_active = FALSE
    /\ silence_count = 0
    /\ frames_in_segment = 0
    /\ vad_buffer = <<>>
    /\ pending = <<>>
    /\ processing = FALSE
    /\ workers = <<>>
    /\ hist = <<>>
    /\ flushed = <<>>
    /\ transcribed = <<>>
    /\ callbacks = <<>>
    /\ closed = FALSE
    /\ close_seg = 0

\* ---- feeding thread: one turn of send_pcm16's loop over the 20 ms frames.
\* The `with self._proc_lock:` blocks of _schedule_transcribe and _proc_loop
\* exclude each other and touch only _pending and _processing, which nothing
\* else touches: each block is one step.
LocalFeedFrame(level) ==
    /\ UNCHANGED <<wsVars, chunkVars, feedVars, orchVars,
                 sliceVars, playVars, cbVars>>
    /\ Len(hist) < MaxFrames
    /\ LET noise1 == NextNoise(speech_active, noise_level, noise_update_alpha, level)
           thr == DynThresh(noise1)
           id == Len(hist) + 1
           buf1 == Append(vad_buffer, id)
           fis1 == frames_in_segment + 1
           sc1 == silence_count + 1
           capFlush == FlushSegment(buf1, fis1, pending, processing, workers, flushed)
           silFlush == FlushSegment(vad_buffer, frames_in_segment, pending, processing,
                                    workers, flushed)
       IN /\ noise_level' = noise1
          /\ hist' = Append(hist, [level |-> level, active |-> speech_active,
                                   thr |-> thr, noise |-> noise1])
          /\ IF IsSpeech(level, thr)
             THEN IF CapReached(fis1, max_frames_per_segment)
                  THEN /\ vad_buffer' = capFlush.buffer
                       /\ frames_in_segment' = capFlush.frames_in_segment
                       /\ pending' = capFlush.pending
                       /\ processing' = capFlush.processing
                       /\ workers' = capFlush.workers
                       /\ flushed' = capFlush.flushed
                       /\ speech_active' = FALSE
                       /\ silence_count' = 0
                  ELSE /\ vad_buffer' = buf1
                       /\ frames_in_segment' = fis1
                       /\ speech_active' = TRUE
                       /\ silence_count' = 0
                       /\ UNCHANGED <<pending, processing, workers, flushed>>
             ELSE IF speech_active
                  THEN IF SilenceReached(sc1, silence_threshold)
                       THEN /\ vad_buffer' = silFlush.buffer
                            /\ frames_in_segment' = silFlush.frames_in_segment
                            /\ pending' = silFlush.pending
                            /\ processing' = silFlush.processing
                            /\ workers' = silFlush.workers
                            /\ flushed' = silFlush.flushed
                            /\ speech_active' = FALSE
                            /\ silence_count' = 0
                       ELSE /\ silence_count' = sc1
                            /\ UNCHANGED <<vad_buffer, frames_in_segment, pending,
                                           processing, workers, flushed, speech_active>>
                  ELSE UNCHANGED <<vad_buffer, frames_in_segment, pending, processing,
                                   workers, flushed, speech_active, silence_count>>
    /\ UNCHANGED <<silence_threshold, max_frames_per_segment, noise_update_alpha,
                   transcribed, callbacks, closed, close_seg>>

\* ---- close(): `self._flush_segment()`
LocalClose ==
    /\ UNCHANGED <<wsVars, chunkVars, feedVars, orchVars,
                 sliceVars, playVars, cbVars>>
    /\ ~closed
    /\ closed' = TRUE
    /\ close_seg' = (IF vad_buffer = <<>> THEN 0 ELSE Len(flushed) + 1)
    /\ LET f == FlushSegment(vad_buffer, frames_in_segment, pending, processing,
                             workers, flushed)
       IN /\ vad_buffer' = f.buffer
          /\ frames_in_segment' = f.frames_in_segment
          /\ pending' = f.pending
          /\ processing' = f.processing
          /\ workers' = f.workers
          /\ flushed' = f.flushed
    /\ UNCHANGED <<silence_threshold, max_frames_per_segment, noise_update_alpha,
                   noise_level, speech_active, silence_count, hist, transcribed,
                   callbacks>>

\* ---- worker thread: _proc_loop
\* The segment taken from the wrong end of the queue.
DequeueNewest(pend) == [data |-> pend[Len(pend)], rest |-> SubSeq(pend, 1, Len(pend) - 1)]

\* `data = self._pending.popleft()`
Dequeue(pend) == [data |-> Head(pend), rest |-> Tail(pend)]

\* The flag left set by a worker that exits.
FlagKeptOnExit == TRUE

\* `self._processing = False` before the worker returns
FlagOnExit == FALSE

\* The `with self._proc_lock:` block at the top of the loop.
WorkerLoop(w) ==
    /\ UNCHANGED <<wsVars, chunkVars, feedVars, orchVars,
                 sliceVars, playVars, cbVars>>
    /\ w \in DOMAIN workers /\ workers[w].pc = "top"
    /\ IF pending = <<>>
       THEN /\ processing' = FlagOnExit
            /\ workers' = [workers EXCEPT ![w] = [pc |-> "exit", seg |-> 0, text |-> ""]]
            /\ UNCHANGED pending
       ELSE /\ pending' = Dequeue(pending).rest
            /\ workers' = [workers EXCEPT ![w] = [pc |-> "transcribe",
                                                  seg |-> Dequeue(pending).data.id,
                                                  text |-> ""]]
            /\ UNCHANGED processing
    /\ UNCHANGED <<silence_threshold, max_frames_per_segment, noise_update_alpha,
                   noise_level, speech_active, silence_count, frames_in_segment,
                   vad_buffer, hist, flushed, transcribed, callbacks, closed,
                   close_seg>>

\* `self.model.transcribe(...)`; an exception becomes the text "[local error] ..."
WorkerTranscribe(w, out) ==
    /\ UNCHANGED <<wsVars, chunkVars, feedVars, orchVars,
                 sliceVars, playVars, cbVars>>
    /\ w \in DOMAIN workers /\ workers[w].pc = "transcribe"
    /\ transcribed' = Append(transcribed, workers[w].seg)
    /\ workers' = [workers EXCEPT ![w].pc = "callback", ![w].text = out]
    /\ UNCHANGED <<silence_threshold, max_frames_per_segment, noise_update_alpha,
                   noise_level, speech_active, silence_count, frames_in_segment,
                   vad_buffer, pending, processing, hist, flushed, callbacks, closed,
                   close_seg>>

\* A worker that reports recognised text only.
DeliversTextOnly(text) == text = "text"

\* `if self._on_transcript and text:` the error marker is a non-empty text
Delivers(text) == text # "empty"

\* `self._on_transcript(text, True)`
WorkerCallback(w) ==
    /\ UNCHANGED <<wsVars, chunkVars, feedVars, orchVars,
                 sliceVars, playVars, cbVars>>
    /\ w \in DOMAIN workers /\ workers[w].pc = "callback"
    /\ callbacks' = (IF Delivers(workers[w].text)
                     THEN Append(callbacks, workers[w].seg) ELSE callbacks)
    /\ workers' = [workers EXCEPT ![w] = [pc |-> "top", seg |-> 0, text |-> ""]]
    /\ UNCHANGED <<silence_threshold, max_frames_per_segment, noise_update_alpha,
                   noise_level, speech_active, silence_count, frames_in_segment,
                   vad_buffer, pending, processing, hist, flushed, transcribed, closed,
                   close_seg>>

WorkerIds == 1..(MaxFrames + 1)

WorkerStep ==
    \E w \in WorkerIds :
        \/ WorkerLoop(w)
        \/ \E out \in Outcomes : WorkerTranscribe(w, out)
        \/ WorkerCallback(w)

LocalNext ==
    \/ \E level \in Levels : LocalFeedFrame(level)
    \/ LocalClose
    \/ \E w \in WorkerIds : WorkerLoop(w)
    \/ \E w \in WorkerIds : \E out \in Outcomes : WorkerTranscribe(w, out)
    \/ \E w \in WorkerIds : WorkerCallback(w)

\* =========================================================================
\* Frame chunker: AudioChunker
\* =========================================================================
\* The window slid by its whole length.
SlideWhole(c, o) == c

\* `for _ in range(self.chunk_frames - self.overlap_frames): self.buffer.popleft()`
SlideCount(c, o) == IF c - o > 0 THEN c - o ELSE 0

ChunkInit ==
    /\ chunk_frames \in 1..MaxChunkFrames
    /\ overlap_frames \in 0..MaxChunkFrames
    /\ buffer = <<>>
    /\ chunks = <<>>
    /\ emitted = <<>>
    /\ chk_pc = "idle"
    /\ nChunkInput = 0

\* add_frame: `self.buffer.append(frame); chunks = []`
ChunkAddFrame ==
    /\ UNCHANGED <<wsVars, localVars, feedVars, orchVars,
                 sliceVars, playVars, cbVars>>
    /\ chk_pc = "idle" /\ nChunkInput < MaxChunkInput
    /\ nChunkInput' = nChunkInput + 1
    /\ buffer' = Append(buffer, nChunkInput + 1)
    /\ chunks' = <<>>
    /\ chk_pc' = "loop"
    /\ UNCHANGED <<chunk_frames, overlap_frames, emitted>>

\* One turn of `while len(self.buffer) >= self.chunk_frames:`
ChunkLoopTurn ==
    /\ UNCHANGED <<wsVars, localVars, feedVars, orchVars,
                 sliceVars, playVars, cbVars>>
    /\ chk_pc = "loop" /\ Len(buffer) >= chunk_frames /\ Len(chunks) < MaxTurns
    /\ chunks' = Append(chunks, SubSeq(buffer, 1, chunk_frames))
    /\ buffer' = SubSeq(buffer, SlideCount(chunk_frames, overlap_frames) + 1, Len(buffer))
    /\ UNCHANGED <<chunk_frames, overlap_frames, emitted, chk_pc, nChunkInput>>

\* The loop condition fails: `return chunks`
ChunkReturn ==
    /\ UNCHANGED <<wsVars, localVars, feedVars, orchVars,
                 sliceVars, playVars, cbVars>>
    /\ chk_pc = "loop" /\ Len(buffer) < chunk_frames
    /\ emitted' = emitted \o chunks
    /\ chunks' = <<>>
    /\ chk_pc' = "idle"
    /\ UNCHANGED <<chunk_frames, overlap_frames, buffer, nChunkInput>>

ChunkNext ==
    \/ ChunkAddFrame
    \/ ChunkLoopTurn
    \/ ChunkReturn

\* =========================================================================
\* Capture callback: chunk, resample, split, send (stream_workers)
\* =========================================================================
SAMPLE_RATE == 16000
FallbackRate == 44100
SendMs == 40
BaseChunkFrames == 20

CaptureRates == {8000, 16000, 22050, 44100, 48000, 96000}
ApiRates == {8000, 11025, 16000, 44100}
FrameMillis == {10, 50, 130}
Paths == {"primary", "fallback", "mic"}

Min(a, b) == IF a <= b THEN a ELSE b

\* `blocksize=int(rate * FRAME_MS / 1000)`, `block = int(fallback_rate * send_ms / 1000)`
BlockSize(rate, ms) == (rate * ms) \div 1000

\* `max_samples = int(dst_sr * 40 / 1000)`
MaxSamples(rate) == (rate * SendMs) \div 1000

\* _resample_pcm16: the length of what it returns
ResampleLen(n, src, dst) == IF src = dst \/ n = 0 THEN n ELSE (n * dst) \div src

\* The rest of the chunk taken as one slice.
SplitEndWhole(st, mx, len) == len

\* `end = min(start + max_samples, len(chunk))`
SplitEnd(st, mx, len) == Min(st + mx, len)

\* The chunk the path's chunker returns for one device block: one block on the
\* system paths (chunk_frames=1), chunk_frames=20 blocks on the microphone path.
ChunkSamples(p, rate, ms) ==
    CASE p = "primary" -> BlockSize(rate, ms)
      [] p = "fallback" -> BlockSize(FallbackRate, SendMs)
      [] p = "mic" -> BaseChunkFrames * BlockSize(SAMPLE_RATE, ms)

FeedInit ==
    /\ path \in Paths
    /\ capture_rate \in (CASE path = "primary" -> CaptureRates
                           [] path = "fallback" -> {FallbackRate}
                           [] path = "mic" -> {SAMPLE_RATE})
    /\ api_rate \in ApiRates
    /\ frame_ms \in FrameMillis
    /\ feed_pc = "idle"
    /\ chunk_len = 0
    /\ split_start = 0
    /\ handed = <<>>

\* `for chunk in self.chunker.add_frame(pcm):` one chunk, session present
FeedChunk ==
    /\ UNCHANGED <<wsVars, localVars, chunkVars, orchVars,
                 sliceVars, playVars, cbVars>>
    /\ feed_pc = "idle"
    /\ chunk_len' = ChunkSamples(path, capture_rate, frame_ms)
    /\ handed' = <<>>
    /\ split_start' = 0
    /\ feed_pc' = (IF path = "mic" THEN "send" ELSE "resample")
    /\ UNCHANGED <<path, capture_rate, api_rate, frame_ms>>

\* `if src_sr != dst_sr: chunk = _resample_pcm16(chunk, src_sr, dst_sr)`;
\* `max_samples = ...; start = 0`
FeedResample ==
    /\ UNCHANGED <<wsVars, localVars, chunkVars, orchVars,
                 sliceVars, playVars, cbVars>>
    /\ feed_pc = "resample"
    /\ chunk_len' = ResampleLen(chunk_len, capture_rate, api_rate)
    /\ split_start' = 0
    /\ feed_pc' = "split"
    /\ UNCHANGED <<path, capture_rate, api_rate, frame_ms, handed>>

\* One turn of `while start < len(chunk):`
FeedSplitTurn ==
    /\ UNCHANGED <<wsVars, localVars, chunkVars, orchVars,
                 sliceVars, playVars, cbVars>>
    /\ feed_pc = "split" /\ split_start < chunk_len
    /\ LET end == SplitEnd(split_start, MaxSamples(api_rate), chunk_len) IN
       /\ handed' = Append(handed, [s |-> split_start, e |-> end])
       /\ split_start' = end
    /\ UNCHANGED <<path, capture_rate, api_rate, frame_ms, feed_pc, chunk_len>>

\* The loop condition fails; the callback is done with the chunk.
FeedSplitDone ==
    /\ UNCHANGED <<wsVars, localVars, chunkVars, orchVars,
                 sliceVars, playVars, cbVars>>
    /\ feed_pc = "split" /\ split_start >= chunk_len
    /\ feed_pc' = "idle"
    /\ UNCHANGED <<path, capture_rate, api_rate, frame_ms, chunk_len, split_start,
                   handed>>

\* mic_callback: `self.stt_session.send_pcm16(chunk)`
FeedMicSend ==
    /\ UNCHANGED <<wsVars, localVars, chunkVars, orchVars,
                 sliceVars, playVars, cbVars>>
    /\ feed_pc = "send"
    /\ handed' = <<[s |-> 0, e |-> chunk_len]>>
    /\ feed_pc' = "idle"
    /\ UNCHANGED <<path, capture_rate, api_rate, frame_ms, chunk_len, split_start>>

FeedNext ==
    \/ FeedChunk
    \/ FeedResample
    \/ FeedSplitTurn
    \/ FeedSplitDone
    \/ FeedMicSend

\* =========================================================================
\* Capture workers: run() and stop() (stream_workers)
\* =========================================================================
NativeChannels == {1, 2, 6}
\* The device contexts run() enters, as numbered in olog.
Dev == [primary |-> 1, loopback |-> 2, mic |-> 3]

\* An entry of olog: a status or message emitted, an exception raised, a device
\* context entered ("open") or left ("release") with n the device, a session
\* started or closed with n the session.
Ev(e, n) == [e |-> e, n |-> n]

\* `candidates = [max_out, 2, 1]`, or `[2, 1]` when the device query raised
Candidates(q, nat) == IF q THEN <<nat, 2, 1>> ELSE <<2, 1>>

\* The last candidate the check accepts instead of the first.
LastAccepted(cands, acc) ==
    LET hits == {i \in DOMAIN cands : cands[i] \in acc} IN
    IF hits = {} THEN 0 ELSE cands[CHOOSE i \in hits : \A j \in hits : j <= i]

RECURSIVE FirstAccepted(_, _)
FirstAccepted(cands, acc) ==
    IF cands = <<>> THEN 0
    ELSE IF Head(cands) \in acc THEN Head(cands) ELSE FirstAccepted(Tail(cands), acc)

\* The `for ch in ...` loop: chosen_channels is the first candidate that
\* check_input_settings accepts. When query_devices raised, dev_info is unbound
\* and every pass of the loop raises before the check.
ChosenChannels(q, nat, acc) == IF q THEN FirstAccepted(Candidates(q, nat), acc) ELSE 0

\* _start_system_session: the backend it constructs, or the exception it raises
SystemBackend(mode, url, bok) ==
    IF mode = "local" THEN (IF bok THEN "local" ELSE "backend_error")
    ELSE IF ~url THEN "ws_url_missing" ELSE "ws"

\* The session construction written out in run(): remote when api mode has a
\* URL, local otherwise.
InlineBackend(mode, url, bok) ==
    IF mode = "api" /\ url THEN "ws" ELSE (IF bok THEN "local" ELSE "backend_error")

\* A wait loop that never looks at the flag.
LoopExitsNever(stop) == FALSE

\* `while not self._stop_event.is_set():`
LoopExits(stop) == stop

\* The with block left without closing the session.
LeaveLoopUnclosed(closePc, releasePc) == releasePc

\* After the wait loop, `try: if self.stt_session: self.stt_session.close()` is
\* still inside the with block.
LeaveLoop(closePc, releasePc) == closePc

\* A primary failure reported as fatal at once.
PrimaryFailureFatal == "failed"

\* `except Exception as primary_err:` the fallback branch
OnPrimaryFailure == "fb_open"

OrchInit ==
    /\ worker \in {"system", "mic"}
    /\ stt_mode \in {"local", "api"}
    /\ url_set \in BOOLEAN
    /\ run_pc = "unstarted"
    /\ stop_event = FALSE
    /\ stt_session = 0
    /\ nSessions = 0
    /\ chosen_channels = 0
    /\ in_stream = "closed"
    /\ loopback = "closed"
    /\ olog = <<>>
    /\ stop_calls = 0

\* One step of run(): from one position to the next, with what it emits.
Step(from, to, events) ==
    /\ UNCHANGED <<wsVars, localVars, chunkVars, feedVars,
                 sliceVars, playVars, cbVars>>
    /\ run_pc = from
    /\ run_pc' = to
    /\ olog' = olog \o events
    /\ UNCHANGED <<worker, stt_mode, url_set, stop_event, stop_calls>>

\* stop(): `self._stop_event.set(); self.wait(1000)`
OrchStop ==
    /\ UNCHANGED <<wsVars, localVars, chunkVars, feedVars,
                 sliceVars, playVars, cbVars>>
    /\ stop_calls < MaxStops
    /\ stop_calls' = stop_calls + 1
    /\ stop_event' = TRUE
    /\ UNCHANGED <<worker, stt_mode, url_set, run_pc, stt_session, nSessions,
                   chosen_channels, in_stream, loopback, olog>>

\* run() begins: the started status
RunBegin ==
    /\ Step("unstarted", IF worker = "system" THEN "negotiate" ELSE "mic_open",
            <<Ev("status_started", 0)>>)
    /\ UNCHANGED <<stt_session, nSessions, chosen_channels, in_stream, loopback>>

\* Channel negotiation; `raise RuntimeError("no_channel")` when nothing is chosen
Negotiate(q, nat, acc) ==
    LET c == ChosenChannels(q, nat, acc) IN
    /\ IF c = 0
       THEN Step("negotiate", OnPrimaryFailure, <<Ev("raise_no_channel", 0)>>)
       ELSE Step("negotiate", "pri_open", <<>>)
    /\ chosen_channels' = c
    /\ UNCHANGED <<stt_session, nSessions, in_stream, loopback>>

\* `with sd.InputStream(...)`: the device stream opens, or raises
PrimaryOpen(ok) ==
    /\ IF ok
       THEN /\ Step("pri_open", "pri_start", <<Ev("open", Dev.primary)>>)
            /\ in_stream' = "open"
       ELSE /\ Step("pri_open", OnPrimaryFailure, <<Ev("raise_open", 0)>>)
            /\ UNCHANGED in_stream
    /\ UNCHANGED <<stt_session, nSessions, chosen_channels, loopback>>

\* A session is constructed and started: `self.stt_session = ...; .start(...)`
Started(from, to) ==
    /\ Step(from, to, <<Ev("session_start", nSessions + 1)>>)
    /\ nSessions' = nSessions + 1
    /\ stt_session' = nSessions + 1

\* What a failed session start emits before the exception leaves the block.
StartFailure(backend) ==
    IF backend = "ws_url_missing"
    THEN <<Ev("msg_ws_url_missing", 0), Ev("raise_session", 0)>>
    ELSE <<Ev("raise_session", 0)>>

\* `self._start_system_session()` inside the InputStream block; an exception
\* leaves the block (the stream is released) and reaches the fallback branch
PrimaryStart(bok) ==
    LET backend == SystemBackend(stt_mode, url_set, bok) IN
    /\ IF backend \in {"ws", "local"}
       THEN /\ Started("pri_start", "pri_loop")
            /\ UNCHANGED in_stream
       ELSE /\ Step("pri_start", OnPrimaryFailure,
                    StartFailure(backend) \o <<Ev("release", Dev.primary)>>)
            /\ in_stream' = "closed"
            /\ UNCHANGED <<stt_session, nSessions>>
    /\ UNCHANGED <<chosen_channels, loopback>>

\* `while not self._stop_event.is_set(): self.msleep(50)`
PrimaryLoop ==
    /\ LoopExits(stop_event)
    /\ Step("pri_loop", LeaveLoop("pri_close", "pri_release"), <<>>)
    /\ UNCHANGED <<stt_session, nSessions, chosen_channels, in_stream, loopback>>

\* `try: if self.stt_session: self.stt_session.close()  finally: self.stt_session = None`
Closed(from, to) ==
    /\ Step(from, to, IF stt_session # 0 THEN <<Ev("session_close", stt_session)>> ELSE <<>>)
    /\ stt_session' = 0
    /\ UNCHANGED <<nSessions, chosen_channels, in_stream, loopback>>

PrimaryClose ==
    /\ run_pc = "pri_close"
    /\ Closed("pri_close", "pri_release")

\* The InputStream block ends.
PrimaryRelease ==
    /\ Step("pri_release", "finish", <<Ev("release", Dev.primary)>>)
    /\ in_stream' = "closed"
    /\ UNCHANGED <<stt_session, nSessions, chosen_channels, loopback>>

\* The fallback branch: its message, then `with DefaultLoopbackReader(...)`,
\* whose __enter__ raises when there is no loopback device
FallbackOpen(ok) ==
    /\ IF ok
       THEN /\ Step("fb_open", "fb_start",
                    <<Ev("fallback_enter", 0), Ev("open", Dev.loopback)>>)
            /\ loopback' = "open"
       ELSE /\ Step("fb_open", "failed",
                    <<Ev("fallback_enter", 0), Ev("raise_loopback", 0)>>)
            /\ UNCHANGED loopback
    /\ UNCHANGED <<stt_session, nSessions, chosen_channels, in_stream>>

\* `self._start_system_session()` inside the reader block
FallbackStart(bok) ==
    LET backend == SystemBackend(stt_mode, url_set, bok) IN
    /\ IF backend \in {"ws", "local"}
       THEN /\ Started("fb_start", "fb_loop")
            /\ UNCHANGED loopback
       ELSE /\ Step("fb_start", "failed",
                    StartFailure(backend) \o <<Ev("release", Dev.loopback)>>)
            /\ loopback' = "closed"
            /\ UNCHANGED <<stt_session, nSessions>>
    /\ UNCHANGED <<chosen_channels, in_stream>>

\* The read loop: `while not self._stop_event.is_set(): pcm = reader.read() ...`
FallbackLoop ==
    /\ LoopExits(stop_event)
    /\ Step("fb_loop", LeaveLoop("fb_close", "fb_release"), <<>>)
    /\ UNCHANGED <<stt_session, nSessions, chosen_channels, in_stream, loopback>>

FallbackClose ==
    /\ run_pc = "fb_close"
    /\ Closed("fb_close", "fb_release")

\* The reader block ends; run() goes on to construct a session again.
FallbackRelease ==
    /\ Step("fb_release", "post_start", <<Ev("release", Dev.loopback)>>)
    /\ loopback' = "closed"
    /\ UNCHANGED <<stt_session, nSessions, chosen_channels, in_stream>>

\* After the reader block: a session is constructed and started once more
PostStart(bok) ==
    LET backend == InlineBackend(stt_mode, url_set, bok) IN
    /\ IF backend \in {"ws", "local"}
       THEN Started("post_start", "post_loop")
       ELSE /\ Step("post_start", "failed", StartFailure(backend))
            /\ UNCHANGED <<stt_session, nSessions>>
    /\ UNCHANGED <<chosen_channels, in_stream, loopback>>

PostLoop ==
    /\ LoopExits(stop_event)
    /\ Step("post_loop", LeaveLoop("post_close", "finish"), <<>>)
    /\ UNCHANGED <<stt_session, nSessions, chosen_channels, in_stream, loopback>>

PostClose ==
    /\ run_pc = "post_close"
    /\ Closed("post_close", "finish")

\* `except Exception as e: self.status.emit("系统音频捕获失败: ...")`
ReportFailure ==
    /\ Step("failed", "finish", <<Ev("status_capture_failed", 0)>>)
    /\ UNCHANGED <<stt_session, nSessions, chosen_channels, in_stream, loopback>>

\* MicStreamWorker.run: `with sd.InputStream(...), sd.OutputStream(...)`
MicOpen(ok) ==
    /\ IF ok
       THEN /\ Step("mic_open", "mic_start", <<Ev("open", Dev.mic)>>)
            /\ in_stream' = "open"
       ELSE /\ Step("mic_open", "mic_failed", <<Ev("raise_open", 0)>>)
            /\ UNCHANGED in_stream
    /\ UNCHANGED <<stt_session, nSessions, chosen_channels, loopback>>

\* MicStreamWorker.run: the session constructed and started inside the block
MicStart(bok) ==
    LET backend == InlineBackend(stt_mode, url_set, bok) IN
    /\ IF backend \in {"ws", "local"}
       THEN /\ Started("mic_start", "mic_loop")
            /\ UNCHANGED in_stream
       ELSE /\ Step("mic_start", "mic_failed",
                    StartFailure(backend) \o <<Ev("release", Dev.mic)>>)
            /\ in_stream' = "closed"
            /\ UNCHANGED <<stt_session, nSessions>>
    /\ UNCHANGED <<chosen_channels, loopback>>

\* `while not self._stop_event.is_set(): self.msleep(20)`
MicLoop ==
    /\ LoopExits(stop_event)
    /\ Step("mic_loop", LeaveLoop("mic_close", "mic_release"), <<>>)
    /\ UNCHANGED <<stt_session, nSessions, chosen_channels, in_stream, loopback>>

MicClose ==
    /\ run_pc = "mic_close"
    /\ Closed("mic_close", "mic_release")

MicRelease ==
    /\ Step("mic_release", "finish", <<Ev("release", Dev.mic)>>)
    /\ in_stream' = "closed"
    /\ UNCHANGED <<stt_session, nSessions, chosen_channels, loopback>>

\* `except Exception as e: self.status.emit("音频设备错误: ...")`
MicReportFailure ==
    /\ Step("mic_failed", "finish", <<Ev("status_device_error", 0)>>)
    /\ UNCHANGED <<stt_session, nSessions, chosen_channels, in_stream, loopback>>

\* The last statement of run(): the stopped status
Finish ==
    /\ Step("finish", "done", <<Ev("status_stopped", 0)>>)
    /\ UNCHANGED <<stt_session, nSessions, chosen_channels, in_stream, loopback>>

\* Every step of a run() that has begun.
RunStep ==
    \/ \E q \in BOOLEAN : \E nat \in NativeChannels : \E acc \in SUBSET NativeChannels :
           Negotiate(q, nat, acc)
    \/ \E ok \in BOOLEAN : PrimaryOpen(ok) \/ FallbackOpen(ok) \/ MicOpen(ok)
    \/ \E bok \in BOOLEAN :
           PrimaryStart(bok) \/ FallbackStart(bok) \/ PostStart(bok) \/ MicStart(bok)
    \/ PrimaryLoop \/ FallbackLoop \/ PostLoop \/ MicLoop
    \/ PrimaryClose \/ FallbackClose \/ PostClose \/ MicClose
    \/ PrimaryRelease \/ FallbackRelease \/ MicRelease
    \/ ReportFailure \/ MicReportFailure \/ Finish

OrchNext ==
    \/ OrchStop
    \/ RunBegin
    \/ \E q \in BOOLEAN : \E nat \in NativeChannels : \E acc \in SUBSET NativeChannels :
           Negotiate(q, nat, acc)
    \/ \E ok \in BOOLEAN : PrimaryOpen(ok)
    \/ \E bok \in BOOLEAN : PrimaryStart(bok)
    \/ PrimaryLoop
    \/ PrimaryClose
    \/ PrimaryRelease
    \/ \E ok \in BOOLEAN : FallbackOpen(ok)
    \/ \E bok \in BOOLEAN : FallbackStart(bok)
    \/ FallbackLoop
    \/ FallbackClose
    \/ FallbackRelease
    \/ \E bok \in BOOLEAN : PostStart(bok)
    \/ PostLoop
    \/ PostClose
    \/ ReportFailure
    \/ \E ok \in BOOLEAN : MicOpen(ok)
    \/ \E bok \in BOOLEAN : MicStart(bok)
    \/ MicLoop
    \/ MicClose
    \/ MicRelease
    \/ MicReportFailure
    \/ Finish

\* =========================================================================
\* Local backend: send_pcm16 cuts a block into analysis frames
\* =========================================================================
LocalFrameMs == 20

\* The rates a local session is started with, and the block lengths the capture
\* callback hands over (pieces of at most 40 ms at those rates).
SessionRates == {8000, 16000}
SliceLens == {160, 320, 480, 640}

\* `self.frame_size = int(self.sample_rate * self.frame_ms / 1000)`
FrameSize(rate) == (rate * LocalFrameMs) \div 1000

\* `for i in range(0, len(pcm16), self.frame_size): frame = pcm16[i:i+frame_size];
\*  if len(frame) < self.frame_size: break`: the offsets whose frame is evaluated
FrameStarts(len, fs) == {i \in 0..(len - 1) : i % fs = 0 /\ i + fs <= len}

SliceInit ==
    /\ frame_size \in {FrameSize(r) : r \in SessionRates}
    /\ fed_blocks = <<>>
    /\ frames_evaluated = 0

\* send_pcm16(pcm16) with len(pcm16) = len: the frame loop from first to last turn
SendPcm16Frames(len) ==
    /\ UNCHANGED <<wsVars, localVars, chunkVars, feedVars, orchVars, playVars, cbVars>>
    /\ Len(fed_blocks) < MaxSliceCalls
    /\ fed_blocks' = Append(fed_blocks, len)
    /\ frames_evaluated' = frames_evaluated + Cardinality(FrameStarts(len, frame_size))
    /\ UNCHANGED frame_size

SliceNext == \E len \in SliceLens : SendPcm16Frames(len)

\* =========================================================================
\* Microphone worker playback: on_tts and out_callback (stream_workers)
\* =========================================================================
\* A sample is written as sample / 32767.0; the model keeps the numerator, so
\* a written 0 is silence and the samples of the blocks are numbered from 1.
TtsLens == 0..(OutFrames + 1)

Zeros(n) == [i \in 1..n |-> 0]

\* The remainder queued behind everything else.
PushRemainderRight(q, rem) == q \o <<rem>>

\* `playback_queue.appendleft(remainder)`
PushRemainder(q, rem) == <<rem>> \o q

PlayInit ==
    /\ playback_queue = <<>>
    /\ out_pc = "idle"
    /\ out_buf = <<>>
    /\ out_data = <<>>
    /\ periods = <<>>
    /\ tts_samples = 0
    /\ nTts = 0

\* on_tts(pcm): `if pcm.size > 0: playback_queue.append(pcm.astype(np.int16))`
OnTts(len) ==
    /\ UNCHANGED <<wsVars, localVars, chunkVars, feedVars, orchVars, sliceVars, cbVars>>
    /\ nTts < MaxTts
    /\ nTts' = nTts + 1
    /\ tts_samples' = tts_samples + len
    /\ playback_queue' = IF len > 0
                         THEN Append(playback_queue, [i \in 1..len |-> tts_samples + i])
                         ELSE playback_queue
    /\ UNCHANGED <<out_pc, out_buf, out_data, periods>>

\* out_callback begins: `if self._stop_event.is_set(): raise sd.CallbackStop`,
\* then `outdata.fill(0)`
OutEnter ==
    /\ UNCHANGED <<wsVars, localVars, chunkVars, feedVars, orchVars, sliceVars, cbVars>>
    /\ out_pc = "idle" /\ Len(periods) < MaxPeriods
    /\ out_pc' = (IF stop_event THEN "stopped" ELSE "filled")
    /\ UNCHANGED <<playback_queue, out_buf, out_data, periods, tts_samples, nTts>>

\* `if playback_queue:`; with the queue empty the zero-filled period is played
OutTest ==
    /\ UNCHANGED <<wsVars, localVars, chunkVars, feedVars, orchVars, sliceVars, cbVars>>
    /\ out_pc = "filled"
    /\ IF playback_queue # <<>>
       THEN out_pc' = "pop" /\ UNCHANGED periods
       ELSE out_pc' = "idle" /\ periods' = Append(periods, Zeros(OutFrames))
    /\ UNCHANGED <<playback_queue, out_buf, out_data, tts_samples, nTts>>

\* `buf = playback_queue.popleft()`
OutPop ==
    /\ UNCHANGED <<wsVars, localVars, chunkVars, feedVars, orchVars, sliceVars, cbVars>>
    /\ out_pc = "pop"
    /\ out_buf' = Head(playback_queue)
    /\ playback_queue' = Tail(playback_queue)
    /\ out_pc' = "split"
    /\ UNCHANGED <<out_data, periods, tts_samples, nTts>>

\* `if len(buf) > needed: data = buf[:needed]; remainder = buf[needed:];
\*  playback_queue.appendleft(remainder)  else: data = buf`
OutSplit ==
    /\ UNCHANGED <<wsVars, localVars, chunkVars, feedVars, orchVars, sliceVars, cbVars>>
    /\ out_pc = "split"
    /\ IF Len(out_buf) > OutFrames
       THEN /\ out_data' = SubSeq(out_buf, 1, OutFrames)
            /\ playback_queue' =
                   PushRemainder(playback_queue, SubSeq(out_buf, OutFrames + 1, Len(out_buf)))
       ELSE /\ out_data' = out_buf
            /\ UNCHANGED playback_queue
    /\ out_buf' = <<>>
    /\ out_pc' = "write"
    /\ UNCHANGED <<periods, tts_samples, nTts>>

\* `outdata[: len(out), 0] = out[:, 0]`: the period is played
OutWrite ==
    /\ UNCHANGED <<wsVars, localVars, chunkVars, feedVars, orchVars, sliceVars, cbVars>>
    /\ out_pc = "write"
    /\ periods' = Append(periods, out_data \o Zeros(OutFrames - Len(out_data)))
    /\ out_data' = <<>>
    /\ out_pc' = "idle"
    /\ UNCHANGED <<playback_queue, out_buf, tts_samples, nTts>>

PlayNext ==
    \/ \E len \in TtsLens : OnTts(len)
    \/ OutEnter
    \/ OutTest
    \/ OutPop
    \/ OutSplit
    \/ OutWrite
    \/ OrchStop

\* =========================================================================
\* A capture callback beside run(): callback / mic_callback (stream_workers)
\* =========================================================================
CbInit ==
    /\ cb_pc = "idle"
    /\ cb_ref = 0
    /\ cb_left = 0
    /\ nCallbacks = 0

\* One step of the callback, with what it adds to olog.
CbStep(from, to, events) ==
    /\ UNCHANGED <<wsVars, localVars, chunkVars, feedVars, sliceVars, playVars>>
    /\ cb_pc = from
    /\ cb_pc' = to
    /\ olog' = olog \o events
    /\ UNCHANGED <<worker, stt_mode, url_set, run_pc, stop_event, stt_session, nSessions,
                   chosen_channels, in_stream, loopback, stop_calls>>

\* The stream delivers a block: `if self._stop_event.is_set(): raise sd.CallbackStop`
CallbackEnter ==
    /\ in_stream = "open" /\ nCallbacks < MaxCallbacks
    /\ CbStep("idle", IF stop_event THEN "stopped" ELSE "check", <<>>)
    /\ nCallbacks' = nCallbacks + 1
    /\ UNCHANGED <<cb_ref, cb_left>>

\* `if not self.stt_session: continue` (mic_callback: `if self.stt_session:`);
\* the chunk is one piece on the microphone path, up to MaxPieces otherwise
CallbackCheck(pieces) ==
    /\ pieces = 1 \/ worker = "system"
    /\ IF stt_session = 0
       THEN CbStep("check", "idle", <<>>) /\ cb_left' = 0
       ELSE CbStep("check", "read", <<>>) /\ cb_left' = pieces
    /\ UNCHANGED <<cb_ref, nCallbacks>>

\* `self.stt_session.send_pcm16(...)`: the attribute is read; on None the
\* AttributeError is caught and reported
CallbackRead ==
    /\ IF stt_session = 0
       THEN CbStep("read", "idle", <<Ev("status_callback_error", 0)>>) /\ UNCHANGED cb_ref
       ELSE CbStep("read", "call", <<>>) /\ cb_ref' = stt_session
    /\ UNCHANGED <<cb_left, nCallbacks>>

\* ... and send_pcm16 is called on the session that was read
CallbackCall ==
    /\ CbStep("call", IF cb_left = 1 THEN "idle" ELSE "read", <<Ev("send", cb_ref)>>)
    /\ cb_left' = cb_left - 1
    /\ UNCHANGED <<cb_ref, nCallbacks>>

\* Leaving the stream's with block waits for a callback in progress.
CallbackQuiet == cb_pc \in {"idle", "stopped"}

RacePrimaryRelease ==
    /\ CallbackQuiet
    /\ PrimaryRelease

RaceMicRelease ==
    /\ CallbackQuiet
    /\ MicRelease

RaceNext ==
    \/ OrchStop
    \/ RunBegin
    \/ \E q \in BOOLEAN : \E nat \in NativeChannels : \E acc \in SUBSET NativeChannels :
           Negotiate(q, nat, acc)
    \/ \E ok \in BOOLEAN : PrimaryOpen(ok)
    \/ \E bok \in BOOLEAN : PrimaryStart(bok)
    \/ PrimaryLoop
    \/ PrimaryClose
    \/ RacePrimaryRelease
    \/ \E ok \in BOOLEAN : FallbackOpen(ok)
    \/ \E bok \in BOOLEAN : FallbackStart(bok)
    \/ FallbackLoop
    \/ FallbackClose
    \/ FallbackRelease
    \/ \E bok \in BOOLEAN : PostStart(bok)
    \/ PostLoop
    \/ PostClose
    \/ ReportFailure
    \/ \E ok \in BOOLEAN : MicOpen(ok)
    \/ \E bok \in BOOLEAN : MicStart(bok)
    \/ MicLoop
    \/ MicClose
    \/ RaceMicRelease
    \/ MicReportFailure
    \/ Finish
    \/ CallbackEnter
    \/ \E pieces \in 1..MaxPieces : CallbackCheck(pieces)
    \/ CallbackRead
    \/ CallbackCall

\* =========================================================================
\* Specifications
\* =========================================================================
\* A component a specification does not exercise rests in one initial state.
WSParked == WSInit /\ payloadProvider = "none"
LocalParked ==
    /\ LocalInit
    /\ silence_threshold = 1 /\ max_frames_per_segment = 2 /\ noise_update_alpha = 0
ChunkParked == ChunkInit /\ chunk_frames = 1 /\ overlap_frames = 0
FeedParked ==
    /\ FeedInit
    /\ path = "primary" /\ capture_rate = 16000 /\ api_rate = 16000 /\ frame_ms = 50
OrchParked == OrchInit /\ worker = "system" /\ stt_mode = "local" /\ url_set = FALSE
SliceParked == SliceInit /\ frame_size = 320
IoParked == SliceParked /\ PlayInit /\ CbInit

InitWS == WSInit /\ LocalParked /\ ChunkParked /\ FeedParked /\ OrchParked /\ IoParked
SpecWS == InitWS /\ [][WSNext]_vars

\* The same instance under ReuseNext.
SpecReuse == InitWS /\ [][ReuseNext]_vars

\* The same session under InboundNext.
SpecInbound == InitWS /\ [][InboundNext]_vars

InitLocal == LocalInit /\ WSParked /\ ChunkParked /\ FeedParked /\ OrchParked /\ IoParked
SpecLocal == InitLocal /\ [][LocalNext]_vars

\* The worker queue under one configuration of the segmenter, which the queue
\* does not depend on. The worker is a thread of its own: once started it keeps
\* being scheduled.
InitWorker == LocalParked /\ WSParked /\ ChunkParked /\ FeedParked /\ OrchParked /\ IoParked
SpecLocalFair == InitWorker /\ [][LocalNext]_vars /\ WF_vars(WorkerStep)

InitChunk == ChunkInit /\ WSParked /\ LocalParked /\ FeedParked /\ OrchParked /\ IoParked
SpecChunk == InitChunk /\ [][ChunkNext]_vars

InitFeed == FeedInit /\ WSParked /\ LocalParked /\ ChunkParked /\ OrchParked /\ IoParked
SpecFeed == InitFeed /\ [][FeedNext]_vars

InitOrch == OrchInit /\ WSParked /\ LocalParked /\ ChunkParked /\ FeedParked /\ IoParked
SpecOrch == InitOrch /\ [][OrchNext]_vars

\* A run() that has begun keeps being scheduled.
SpecOrchFair == InitOrch /\ [][OrchNext]_vars /\ WF_vars(RunStep)

InitSlice ==
    /\ SliceInit /\ PlayInit /\ CbInit
    /\ WSParked /\ LocalParked /\ ChunkParked /\ FeedParked /\ OrchParked
SpecSlice == InitSlice /\ [][SliceNext]_vars

\* The microphone worker's playback, with stop() beside it.
InitPlay ==
    /\ PlayInit /\ SliceParked /\ CbInit
    /\ WSParked /\ LocalParked /\ ChunkParked /\ FeedParked
    /\ OrchInit /\ worker = "mic" /\ stt_mode = "api" /\ url_set = TRUE
SpecPlay == InitPlay /\ [][PlayNext]_vars

\* run() with the stream's callback beside it.
SpecRace == InitOrch /\ [][RaceNext]_vars

\* ---- remote client: properties
\* A session whose handshake, audio framing and termination all follow the
\* "baidu" protocol, as the orchestrator constructs it (the same configured
\* provider in the constructor payload and in start's options).
Handshake == Prov = "baidu" /\ provider = "baidu"

\* C1: in a handshake session no audio frame is written to the socket before
\* the client has handled a status-STA message, and until then every
\* send_pcm16 call that has returned has only appended its block to the
\* pending buffer (which therefore holds exactly those blocks, in call order).
C1_NoAudioBeforeReady ==
    (Handshake /\ ~staSeen) =>
        /\ SelectBlocks(wire) = <<>>
        /\ (phase # "closed" => pending_chunks = returned)

C1_Witness ==
    /\ Handshake /\ ~staSeen /\ conn = "open" /\ phase = "started"
    /\ Len(returned) >= 2 /\ pending_chunks = returned

\* C2: in a handshake session, under every interleaving of send_pcm16 with the
\* STA handler, the blocks go out in call order, each exactly once, and once the
\* STA handler and the capture thread are both at rest nothing is left in the
\* pending buffer: the audio on the wire is exactly the sequence of calls.
C2_ExactlyOnceInOrder ==
    (Handshake /\ phase = "started") =>
        /\ StrictlyIncreasing(SelectBlocks(wire))
        /\ (staSeen /\ rcv_pc = "idle" /\ cap_pc = "idle") =>
               (SelectBlocks(wire) = calls /\ pending_chunks = <<>>)

\* A session that follows the generic protocol throughout: JSON start message,
\* audio messages, JSON stop message.
Generic == Prov # "baidu" /\ provider # "baidu"

AudioAt(i) == wire[i].t \in {"bin", "json"}

\* C14: in a generic session the first message written to the socket is the
\* start message, and no audio message is written after the stop message,
\* whatever the interleaving of send_pcm16 with on_open and with close().
C14_StartAudioStopOrder ==
    Generic =>
        /\ (wire # <<>> => wire[1] = Ctl("start"))
        /\ \A i \in 1..Len(wire) : \A j \in 1..Len(wire) :
               (i < j /\ wire[i] = Ctl("stop")) => ~AudioAt(j)

\* C15: close() has returned: the pending buffer is empty, the ready flag is
\* false and the handle is cleared; and the termination message, when the
\* socket took it, went out before the socket was released.
C15_CloseLeavesNothing ==
    /\ (phase = "closed" /\ ctl_pc = "idle") =>
           /\ pending_chunks = <<>>
           /\ ready = FALSE
           /\ ws = "None"
    /\ (conn = "closed" /\ wire # <<>>) =>
           \E i \in 1..Len(wire) :
               wire[i] = (IF Prov = "baidu" THEN Ctl("FINISH") ELSE Ctl("stop"))

\* ---- local backend: properties
Interval(a, b) == [i \in 1..(b - a + 1) |-> a + i - 1]

RECURSIVE Flatten(_)
Flatten(ss) == IF ss = <<>> THEN <<>> ELSE Head(ss) \o Flatten(Tail(ss))

\* Frame i exceeded the dynamic threshold in force when it was processed.
Above(i) == hist[i].level * NoiseScale > hist[i].thr

\* The noise floor before frame i was processed.
NoiseBefore(i) == IF i = 1 THEN InitialNoise * NoiseScale ELSE hist[i - 1].noise

LiveWorkers == {w \in DOMAIN workers : workers[w].pc # "exit"}

\* C3: final transcript callbacks are delivered in the order their segments
\* were flushed (segments are numbered in flush order), whatever the
\* interleaving of enqueueing and draining and across worker re-spawns.
C3_CallbacksInFlushOrder == StrictlyIncreasing(callbacks)

C3_Witness == Len(callbacks) >= 2 /\ Len(workers) >= 2

\* C4: at most one worker is inside the dequeue-transcribe-callback loop at any
\* time, and the processing flag is set exactly while there is one.
C4_SingleWorker ==
    /\ Cardinality(LiveWorkers) <= 1
    /\ processing <=> (LiveWorkers # {})

C4_Witness ==
    /\ Len(workers) >= 2 /\ workers[1].pc = "exit"
    /\ workers[2].pc = "transcribe" /\ pending # <<>>

\* C5: every segment placed on the pending queue is eventually passed to the
\* model (whatever has been queued, a point comes where all of it has been
\* passed on), and no segment is passed to it twice.
C5_EverySegmentTranscribedOnce ==
    /\ []<>(Range(transcribed) = 1..Len(flushed))
    /\ [](\A i \in 1..Len(transcribed) : \A j \in 1..Len(transcribed) :
             i # j => transcribed[i] # transcribed[j])

\* A segment queued after the first worker found the queue empty and exited
\* has been transcribed by a re-spawned worker.
C5_Witness ==
    /\ Len(workers) >= 2 /\ workers[1].pc = "exit"
    /\ Len(transcribed) >= 2 /\ pending = <<>>

\* The model has raised on worker w's segment and the worker holds the error
\* marker it is about to report.
ErrorIn(w) == w \in DOMAIN workers /\ workers[w].pc = "callback" /\ workers[w].text = "error"

\* Every segment flushed so far has been passed to the model.
Drained == pending = <<>> /\ Range(transcribed) = 1..Len(flushed)

\* C20: when the model raises on a segment the worker reports the error marker
\* as that segment's final callback and goes back to the top of its loop with
\* the queue and the session untouched; the segments still queued are then
\* transcribed, and so is whatever is flushed later, all in flush order.
C20_ErrorReportedWorkerContinues ==
    /\ [][\A w \in DOMAIN workers :
             (ErrorIn(w) /\ workers'[w].pc # "callback") =>
                 /\ callbacks' = Append(callbacks, workers[w].seg)
                 /\ workers'[w].pc = "top"
                 /\ pending' = pending /\ processing' /\ closed' = closed]_vars
    /\ (\E w \in WorkerIds : ErrorIn(w)) ~> Drained
    /\ []<>Drained
    /\ [](StrictlyIncreasing(transcribed))

\* The model has raised on one segment while a later one waits in the queue
\* and an earlier one has been reported.
C20_Witness ==
    /\ \E w \in WorkerIds : ErrorIn(w) /\ workers[w].seg >= 2
    /\ pending # <<>> /\ callbacks # <<>>

\* The stream fed so far: P frames at or below the threshold, then K frames
\* above it (K below the duration cap), then at least silence_threshold frames
\* at or below it.
SpeechThenSilence(P, K) ==
    /\ K < max_frames_per_segment
    /\ P + K + silence_threshold <= Len(hist)
    /\ \A i \in 1..Len(hist) : Above(i) <=> (P < i /\ i <= P + K)

\* C6: for such a stream exactly one segment is flushed, and it holds exactly
\* the K frames that were above the threshold.
C6_OneSegmentOfKFrames ==
    ~closed =>
        \A P \in 0..MaxFrames : \A K \in 1..MaxFrames :
            SpeechThenSilence(P, K) =>
                (flushed = <<Interval(P + 1, P + K)>> /\ vad_buffer = <<>>)

C6_Witness ==
    /\ ~closed
    /\ \E P \in 0..MaxFrames : \E K \in 2..MaxFrames :
           SpeechThenSilence(P, K) /\ flushed = <<Interval(P + 1, P + K)>>

AllAbove == Len(hist) >= 1 /\ \A i \in 1..Len(hist) : Above(i)

\* C7: for input that stays above the threshold, every frame is in exactly one
\* segment (flushed or still open), in order; and until close() the flushed
\* segments are the successive runs of exactly max_frames_per_segment frames,
\* the frame after each run opening the next segment.
C7_CapSplitsWithoutLoss ==
    AllAbove =>
        /\ Flatten(flushed) \o vad_buffer = Interval(1, Len(hist))
        /\ ~closed =>
              /\ Len(flushed) = Len(hist) \div max_frames_per_segment
              /\ \A j \in 1..Len(flushed) :
                     flushed[j] = Interval((j - 1) * max_frames_per_segment + 1,
                                           j * max_frames_per_segment)

C7_Witness ==
    /\ AllAbove /\ ~closed /\ Len(hist) > max_frames_per_segment
    /\ Len(flushed) >= 1 /\ vad_buffer # <<>>

AllAtOrBelow == \A i \in 1..Len(hist) : ~Above(i)

\* C8: for a stream that stays at or below the dynamic threshold nothing is
\* flushed, nothing is queued, no worker is started and no callback occurs.
C8_SilenceFlushesNothing ==
    AllAtOrBelow =>
        /\ flushed = <<>> /\ vad_buffer = <<>>
        /\ pending = <<>> /\ workers = <<>>
        /\ transcribed = <<>> /\ callbacks = <<>>

C8_Witness ==
    /\ AllAtOrBelow /\ Len(hist) >= 3 /\ closed
    /\ \E i \in 1..Len(hist) : hist[i].level * NoiseScale = hist[i].thr

\* C9: a frame processed while Active leaves the noise floor unchanged, and
\* nothing but a frame changes it.
C9_NoiseFloorFrozenWhileActive ==
    /\ \A i \in 1..Len(hist) : hist[i].active => hist[i].noise = NoiseBefore(i)
    /\ noise_level = NoiseBefore(Len(hist) + 1)

C9_Witness ==
    \E i \in 1..Len(hist) : \E j \in 1..Len(hist) :
        /\ i < j
        /\ hist[i].active /\ hist[i].level = 2000 /\ hist[i].noise = NoiseBefore(i)
        /\ ~hist[j].active /\ hist[j].noise # NoiseBefore(j)

\* ---- chunker: properties
Consecutive(ch) == \A i \in 1..(Len(ch) - 1) : ch[i + 1] = ch[i] + 1

\* C10: every chunk add_frame returns is chunk_frames consecutive input frames
\* in arrival order, and two adjacent chunks share exactly overlap_frames
\* frames: the last overlap_frames of one are the first overlap_frames of the
\* next.
C10_ChunksOverlapExactly ==
    /\ \A k \in 1..Len(emitted) :
           Len(emitted[k]) = chunk_frames /\ Consecutive(emitted[k])
    /\ \A k \in 1..(Len(emitted) - 1) :
           /\ Cardinality(Range(emitted[k]) \cap Range(emitted[k + 1])) = overlap_frames
           /\ SubSeq(emitted[k], chunk_frames - overlap_frames + 1, chunk_frames)
                  = SubSeq(emitted[k + 1], 1, overlap_frames)

C10_Witness == Len(emitted) >= 2 /\ overlap_frames >= 1 /\ chunk_frames >= 2

\* The emitted chunks with the overlap removed: the first chunk whole, every
\* later chunk without its first overlap_frames frames.
RECURSIVE DropOverlap(_, _)
DropOverlap(ch, o) ==
    IF ch = <<>> THEN <<>>
    ELSE SubSeq(Head(ch), o + 1, Len(Head(ch))) \o DropOverlap(Tail(ch), o)

OverlapRemoved(ch, o) == IF ch = <<>> THEN <<>> ELSE Head(ch) \o DropOverlap(Tail(ch), o)

\* C11 (as stated): between add_frame calls the emitted chunks with the overlap
\* removed are the whole input frame stream, so every frame given to add_frame
\* is in an emitted chunk.
C11_EveryFrameEmitted ==
    chk_pc = "idle" =>
        OverlapRemoved(emitted, overlap_frames) = Interval(1, nChunkInput)

\* C11 (amended): between add_frame calls the emitted chunks with the overlap
\* removed are a prefix of the input frame stream (nothing missing, repeated or
\* out of order), every frame not yet in an emitted chunk is still in the
\* buffer, and fewer than chunk_frames frames are in that state.
C11_NoSampleLost ==
    chk_pc = "idle" =>
        LET out == OverlapRemoved(emitted, overlap_frames) IN
        /\ Len(out) <= nChunkInput
        /\ out = Interval(1, Len(out))
        /\ \A f \in 1..nChunkInput : f \in Range(out) \/ f \in Range(buffer)
        /\ nChunkInput - Len(out) < chunk_frames

C11_Witness ==
    /\ chk_pc = "idle" /\ Len(emitted) >= 2 /\ overlap_frames >= 1
    /\ Len(OverlapRemoved(emitted, overlap_frames)) < nChunkInput

\* ---- capture callback: properties
PieceLen(i) == handed[i].e - handed[i].s

\* C12: every slice handed to send_pcm16, on every capture path, carries at
\* most 40 ms of audio at the session rate.
C12_AtMost40msPerBlock ==
    \A i \in 1..Len(handed) : PieceLen(i) * 1000 <= SendMs * api_rate

\* C13: on the system paths the slices of a chunk passed to send_pcm16 start
\* at sample 0, each is between 1 and max_samples long and begins where the
\* one before ended, and when the loop is over they end at len(chunk): their
\* concatenation is the whole chunk.
C13_SplitCoversChunk ==
    (path # "mic" /\ feed_pc \in {"split", "idle"}) =>
        /\ \A i \in 1..Len(handed) :
               /\ 1 <= PieceLen(i) /\ PieceLen(i) <= MaxSamples(api_rate)
               /\ handed[i].s = (IF i = 1 THEN 0 ELSE handed[i - 1].e)
        /\ split_start = (IF handed = <<>> THEN 0 ELSE handed[Len(handed)].e)
        /\ split_start <= chunk_len
        /\ feed_pc = "idle" => split_start = chunk_len

\* A resampled chunk longer than three maximal slices has been sent, its last
\* slice shorter than the others.
C13_Witness ==
    /\ path = "primary" /\ capture_rate # api_rate /\ feed_pc = "idle"
    /\ Len(handed) >= 4 /\ PieceLen(Len(handed)) < MaxSamples(api_rate)

\* ---- capture workers: properties
EvAt(e) == {i \in 1..Len(olog) : olog[i].e = e}
Seen(ev) == \E i \in 1..Len(olog) : olog[i] = ev

\* Device d, entered at position o of olog, is still held just before position i.
HeldSince(d, o, i) ==
    /\ o < i /\ olog[o] = Ev("open", d)
    /\ \A r \in (o + 1)..(i - 1) : olog[r] # Ev("release", d)

\* Session number n has been closed after position i.
ClosedAfter(n, i) == \E k \in (i + 1)..Len(olog) : olog[k] = Ev("session_close", n)

C18_NoDeviceWithoutUrl ==
    (worker = "system" /\ stt_mode = "api" /\ ~url_set) =>
        /\ EvAt("open") = {}
        /\ EvAt("session_start") = {}
        /\ (run_pc = "done" => Seen(Ev("msg_ws_url_missing", 0)))

\* A session has been started on the primary input stream.
PrimaryStreaming ==
    \E i \in EvAt("session_start") : \E o \in 1..i : HeldSince(Dev.primary, o, i)

\* C19: in the system worker a primary failure by no accepted channel or by
\* the stream not opening leads to the fallback branch; the capture-failed
\* status comes only after the fallback was entered and has failed too; and
\* once a session runs on the primary stream the fallback is never entered.
C19_FallbackBeforeFatal ==
    /\ \A i \in EvAt("raise_no_channel") \cup EvAt("raise_open") :
           worker = "system" =>
               IF i = Len(olog) THEN run_pc = "fb_open"
               ELSE olog[i + 1] = Ev("fallback_enter", 0)
    /\ \A i \in EvAt("status_capture_failed") :
           \E j \in EvAt("fallback_enter") :
               /\ j < i
               /\ \E k \in (j + 1)..(i - 1) : olog[k].e \in {"raise_loopback", "raise_session"}
    /\ PrimaryStreaming => EvAt("fallback_enter") = {}

\* No channel was accepted, the loopback reader did not open either, and the
\* capture-failed status has been emitted.
C19_Witness ==
    /\ Seen(Ev("raise_no_channel", 0)) /\ Seen(Ev("raise_loopback", 0))
    /\ Seen(Ev("status_capture_failed", 0))

\* The worker threads are done with segment k: it has been passed to the model
\* and no worker holds it any more.
Settled(k) ==
    /\ k \in Range(transcribed)
    /\ \A w \in DOMAIN workers : workers[w].seg # k

NoRepeat(s) == \A i, j \in DOMAIN s : s[i] = s[j] => i = j

\* C22: close() with a non-empty open segment queues exactly that segment,
\* all its frames in order, once, and leaves the buffer empty; close() with no
\* open segment queues nothing; and the transcript callback of the segment
\* close() queued is eventually made: it has been made by the time the worker
\* is done with the segment.
C22_CloseQueuesOpenSegment ==
    /\ [][(~closed /\ closed') =>
             IF vad_buffer # <<>>
             THEN /\ flushed' = Append(flushed, vad_buffer)
                  /\ pending' = Append(pending, [id |-> Len(flushed) + 1,
                                                 frames |-> vad_buffer])
                  /\ vad_buffer' = <<>>
             ELSE /\ flushed' = flushed /\ pending' = pending
                  /\ vad_buffer' = <<>>]_vars
    /\ [](close_seg # 0 /\ Settled(close_seg) => close_seg \in Range(callbacks))
    /\ (close_seg # 0) ~> (close_seg \in Range(callbacks))

\* C23: every flushed segment is followed by exactly one final transcript
\* callback whatever the model returns: no segment has two callbacks, every
\* callback is for a segment that was flushed and passed to the model, and
\* once the worker is done with a segment its callback has been made.
C23_OneCallbackPerSegment ==
    /\ NoRepeat(callbacks)
    /\ Range(callbacks) \subseteq Range(transcribed)
    /\ Range(transcribed) \subseteq 1..Len(flushed)
    /\ \A k \in 1..Len(flushed) : Settled(k) => k \in Range(callbacks)

\* C29: every flush (by the silence threshold, by the duration cap or by
\* close()) leaves the segmenter Idle with an empty buffer, silence counter 0
\* and frame counter 0; so a segment is open exactly while Active.
C29_FlushLeavesIdle ==
    /\ [][Len(flushed') > Len(flushed) =>
             /\ ~speech_active' /\ vad_buffer' = <<>>
             /\ silence_count' = 0 /\ frames_in_segment' = 0]_vars
    /\ [](speech_active <=> vad_buffer # <<>>)
    /\ [](~speech_active => silence_count = 0 /\ frames_in_segment = 0)

\* a / b rounded to the nearest integer, a tie to the even one.
Round(a, b) ==
    LET q == a \div b
        r == a % b
    IN IF 2 * r < b THEN q
       ELSE IF 2 * r > b THEN q + 1
       ELSE IF q % 2 = 0 THEN q ELSE q + 1

\* C28: a non-empty chunk resampled between two different rates comes out
\* with round(len * target_rate / source_rate) samples.
C28_ResampleCountRounded ==
    (path # "mic" /\ feed_pc = "split" /\ capture_rate # api_rate
        /\ ChunkSamples(path, capture_rate, frame_ms) > 0) =>
        chunk_len = Round(ChunkSamples(path, capture_rate, frame_ms) * api_rate,
                          capture_rate)

\* ---- remote session: inbound messages
Kinds == TextKinds \cup BinKinds

\* The session handles one inbound message or frame of this kind.
Receives(kind) == IF kind \in BinKinds THEN WsOnData(kind) ELSE WsOnMessage(kind)

\* Malformed or unexpected in a session of variant prov: not JSON, an unknown
\* status or type, a frame that is short or unmarked, audio that does not
\* decode; in the handshake variant a non-zero code (a message with no code
\* field counts as one); in the generic variant a message with no type field.
Unexpected(prov, kind) ==
    \/ kind \in {"JUNK", "OTHER", "TTS_BAD", "BIN_BAD", "BIN_SHORT", "BIN_NOMARK"}
    \/ prov = "baidu" /\ kind \in {"ERR", "TR_P", "TR_F", "TTS"}
    \/ prov # "baidu" /\ kind \in {"STA", "ERR", "MID", "FIN", "MID_EMPTY"}

NoCallback ==
    /\ transcripts' = transcripts
    /\ tts_audio' = tts_audio

C30_DemuxByDiscriminator ==
    [][\A kind \in TextKinds : (nMsgs' = nMsgs + 1 /\ WsOnMessage(kind)) =>
          CASE Prov = "baidu" /\ kind \in {"MID", "MID_EMPTY"} ->
                   transcripts' = Append(transcripts, "partial") /\ tts_audio' = tts_audio
            [] Prov = "baidu" /\ kind = "FIN" ->
                   transcripts' = Append(transcripts, "final") /\ tts_audio' = tts_audio
            [] Prov # "baidu" /\ kind = "TR_P" ->
                   transcripts' = Append(transcripts, "partial") /\ tts_audio' = tts_audio
            [] Prov # "baidu" /\ kind = "TR_F" ->
                   transcripts' = Append(transcripts, "final") /\ tts_audio' = tts_audio
            [] Prov # "baidu" /\ kind = "TTS" /\ on_tts ->
                   tts_audio' = Append(tts_audio, [n |-> nMsgs + 1])
                   /\ transcripts' = transcripts
            [] OTHER -> NoCallback]_vars

\* C30 (amended): as stated, with the handshake rows for messages that carry a
\* non-empty text; a TRN message with an empty text makes no callback.
C30_DemuxNonEmptyText ==
    [][\A kind \in TextKinds : (nMsgs' = nMsgs + 1 /\ WsOnMessage(kind)) =>
          CASE Prov = "baidu" /\ kind = "MID" ->
                   transcripts' = Append(transcripts, "partial") /\ tts_audio' = tts_audio
            [] Prov = "baidu" /\ kind = "FIN" ->
                   transcripts' = Append(transcripts, "final") /\ tts_audio' = tts_audio
            [] Prov # "baidu" /\ kind = "TR_P" ->
                   transcripts' = Append(transcripts, "partial") /\ tts_audio' = tts_audio
            [] Prov # "baidu" /\ kind = "TR_F" ->
                   transcripts' = Append(transcripts, "final") /\ tts_audio' = tts_audio
            [] Prov # "baidu" /\ kind = "TTS" /\ on_tts ->
                   tts_audio' = Append(tts_audio, [n |-> nMsgs + 1])
                   /\ transcripts' = transcripts
            [] OTHER -> NoCallback]_vars

\* A handshake session has made a non-final and then a final transcript
\* callback for its two messages.
C30_Witness ==
    /\ Prov = "baidu" /\ nMsgs = 2
    /\ transcripts = <<"partial", "final">> /\ tts_audio = <<>>

\* C26: what a session writes to the socket and the callbacks it makes do not
\* depend on an event sink being registered: every step on_open takes is the
\* step it takes with a sink and the step it takes without one (on_open is
\* the only handler whose writes could depend on the start options).
C26_SinkDoesNotChangeTraffic ==
    [][WsOnOpen => (OnOpen(TRUE) /\ OnOpen(FALSE))]_vars

\* ---- remote session: threads
\* The capture thread is inside send_pcm16 past the handle test; the receiver
\* thread is inside the pending-buffer flush; the control thread is inside close().
CaptureSending == cap_pc \in {"branch", "append", "send", "sendjson"}
ReceiverFlushing == rcv_pc \in {"flushloop", "flushclear"}
Closing == ctl_pc # "idle"

\* C24: no message is written to the socket by a step of the capture thread:
\* a step that writes leaves the capture thread where it was, and a
\* send_pcm16 call returns without having written.
C24_NoWriteOnCaptureThread ==
    [][wire' # wire => (cap_pc' = cap_pc /\ returned' = returned)]_vars

\* C25: a send on the capture thread or a flush on the receiver thread is
\* never in progress while close() is, and the capture thread is never at its
\* append while the receiver iterates or clears the pending buffer or close()
\* clears it.
C25_SocketAccessExclusive ==
    /\ ~((CaptureSending \/ ReceiverFlushing) /\ Closing)
    /\ ~(cap_pc = "append" /\ ReceiverFlushing)

\* close() has been called on the instance and has returned.
CloseReturned == phase = "closed" /\ ctl_pc = "idle"

\* C27: once close() has returned the instance stays closed whatever is called
\* on it: it never gets back to the started state, its handle stays cleared,
\* and nothing more is written to a socket or delivered to a callback.
C27_SingleUse ==
    [][CloseReturned =>
          /\ phase' = "closed" /\ ws' = "None"
          /\ wire' = wire
          /\ transcripts' = transcripts /\ tts_audio' = tts_audio]_vars

\* ---- local backend: contents of segments
\* The frames fed so far that exceeded the threshold, in arrival order.
AboveFrames == SelectSeq(Interval(1, Len(hist)), LAMBDA i : Above(i))

\* C38: the flushed segments followed by the open one are exactly the
\* above-threshold frames in arrival order, each flushed segment the ones
\* received since the flush before it; no frame at or below the threshold
\* (a pause inside an utterance, the silence that ends it) is in any segment.
C38_SegmentsAreAboveFrames ==
    /\ Flatten(flushed) \o vad_buffer = AboveFrames
    /\ \A j \in 1..Len(flushed) : flushed[j] # <<>>

\* A flushed segment that skips a pause: its frames are not consecutive.
C38_Witness ==
    \E j \in 1..Len(flushed) : ~Consecutive(flushed[j]) /\ ~closed

\* C39: the frame counter is the length of the open-segment buffer, the
\* silence counter is below the silence threshold and non-zero only while
\* Active, and no open or flushed segment is longer than the cap.
C39_CountersMatchBuffer ==
    /\ frames_in_segment = Len(vad_buffer)
    /\ silence_count < silence_threshold
    /\ silence_count # 0 => speech_active
    /\ Len(vad_buffer) <= max_frames_per_segment
    /\ \A j \in 1..Len(flushed) : Len(flushed[j]) <= max_frames_per_segment

\* A pause is being counted inside an open segment, after a segment as long
\* as the cap was flushed.
C39_Witness ==
    /\ silence_count = 1 /\ vad_buffer # <<>>
    /\ \E j \in 1..Len(flushed) : Len(flushed[j]) = max_frames_per_segment

\* ---- remote client: variant and pending buffer
SessionStarted == phase # "constructed"

\* C36: within one session the opening handshake, the audio framing and
\* pre-ready buffering of send_pcm16, and the termination message all follow
\* the same protocol variant, whatever providers the constructor's payload and
\* the start options name.
C36_OneVariantPerSession ==
    SessionStarted => ((Prov = "baidu") <=> (provider = "baidu"))

\* C33: the handshake variant's pending audio buffer holds a bounded number of
\* blocks however many send_pcm16 calls are made before the ready
\* acknowledgment: it never holds one block for every call the capture
\* callback can make.
C33_PendingBounded == Len(pending_chunks) < MaxBlocks

\* ---- chunker: termination
\* C40: add_frame returns for every chunk_frames >= 1 and overlap_frames >= 0:
\* every turn of its loop leaves fewer frames in the buffer, so the loop
\* condition fails after finitely many turns; and while fewer than chunk_frames
\* frames are buffered it returns the empty list.
C40_AddFrameReturns ==
    [][/\ ChunkLoopTurn => Len(buffer') < Len(buffer)
       /\ (ChunkReturn /\ nChunkInput < chunk_frames) => chunks = <<>>]_vars

\* ---- capture workers: sessions and stop, channel negotiation
\* C34: once the stop flag is set, run() constructs and starts no session, on
\* the primary path and on the fallback path alike; the only session operation
\* left is close() on the session that was active.
C34_NoSessionAfterStop ==
    [][stop_event => nSessions' = nSessions]_vars

\* A candidate list's first member that the settings check accepts, 0 if none.
FirstHit(order, acc) ==
    LET hits == {i \in DOMAIN order : order[i] \in acc} IN
    IF hits = {} THEN 0 ELSE order[CHOOSE i \in hits : \A j \in hits : i <= j]

RECURSIVE SumSeq(_)
SumSeq(s) == IF s = <<>> THEN 0 ELSE Head(s) + SumSeq(Tail(s))

\* C37: over any sequence of send_pcm16 calls every fed sample is evaluated in
\* an analysis frame, samples that do not fill a frame being carried into the
\* next call: the frames evaluated are floor(samples fed / frame_size).
C37_FramesConserveSamples ==
    frames_evaluated = SumSeq(fed_blocks) \div frame_size

\* ---- microphone playback
NonZero(s) == SelectSeq(s, LAMBDA x : x # 0)

\* What out_callback holds between taking a block and writing the period.
InHand == IF out_pc = "split" THEN out_buf ELSE IF out_pc = "write" THEN out_data ELSE <<>>

\* C32: under every interleaving of on_tts and out_callback the samples played,
\* followed by what out_callback holds and what is still queued, are the
\* received blocks' samples in arrival order, each once; a block longer than
\* the period has its remainder put at the front of the queue; every period is
\* whole, and what the played audio does not cover of it is zero, the whole
\* period when the queue was empty.
C32_PlaybackInArrivalOrder ==
    /\ [](/\ NonZero(Flatten(periods)) \o InHand \o Flatten(playback_queue)
               = Interval(1, tts_samples)
          /\ \A k \in 1..Len(periods) :
                 /\ Len(periods[k]) = OutFrames
                 /\ \A i, j \in 1..OutFrames : (i < j /\ periods[k][i] = 0) => periods[k][j] = 0)
    /\ [][/\ (OutSplit /\ Len(out_buf) > OutFrames) =>
                 /\ Head(playback_queue') = SubSeq(out_buf, OutFrames + 1, Len(out_buf))
                 /\ Tail(playback_queue') = playback_queue
          /\ (OutTest /\ playback_queue = <<>>) =>
                 periods' = Append(periods, Zeros(OutFrames))]_vars

\* A block of three samples arrives, a second block arrives while the first is
\* being played, and the remainder of the first is played before the second.
C32_Witness ==
    /\ Len(periods) >= 3
    /\ periods[1] = <<1, 2>> /\ periods[2] = <<3, 0>> /\ periods[3][1] = 4
    /\ playback_queue = <<>> /\ out_pc = "idle"

\* ---- capture callback beside run()
\* C35: once run() has called close() on a session, no send_pcm16 call from a
\* capture callback reaches that session, whatever the interleaving of a
\* callback in progress with the stop and close sequence.
C35_NoSendAfterClose ==
    \A i, j \in 1..Len(olog) :
        (i < j /\ olog[i].e = "session_close" /\ olog[j].e = "send") => olog[i].n # olog[j].n

====
